---------------------------- MODULE Spec2Model ----------------------------
(***************************************************************************)
(* A model of the .note -> PDF conversion pipeline of supernote-companion  *)
(* (src/src/api/note-parser.ts): the bounds-checked reader, the signature  *)
(* gate, the RATTA_RLE decoder, the layer compositor and the PDF emitter.  *)
(*                                                                         *)
(* Each component has its own specification (SpecGate, SpecRLE,            *)
(* SpecRender, SpecPDF); the variables of the components a specification   *)
(* does not exercise stay at their idle values.                            *)
(*                                                                         *)
(* Conventions: a byte is an integer 0..255; a Uint8Array is a sequence of *)
(* bytes; a JavaScript string is the sequence of its UTF-16 code units.    *)
(* Sequences are 1-based, so the byte at JavaScript offset k is data[k+1]. *)
(***************************************************************************)
EXTENDS Integers, Sequences, FiniteSets, TLC

VARIABLES
    \* BinaryReader and the two entry points
    noteData,        \* the input buffer (BinaryReader.data)
    pos,             \* BinaryReader.pos
    entry,           \* "convertNoteToPdf" | "getNoteInfo"
    convPc,          \* "start" | "validated" | "parsed" | "failed" | "render"
    convError,       \* kind of the Error thrown ("" when none)
    blocksResolved,  \* number of parseMetadataBlock calls made so far
    footerMap,       \* text of the footer record (<<>> for the empty record)
    \* decodeRLE
    compressedData, width, height, i, holder, decompressed, rlePc,
    \* renderPage
    layers, layerIdx, canvas, layerPixels, renderPc,
    \* buildPDF
    pageImages, chunks, xrefOffsets, byteOffset, xrefStart, pageI, pdfPc,
    \* parseNotebook and the page loop of convertNoteToPdf
    pageEntries,     \* the sorted [pageNum, addr] pairs of the footer record
    notebook,        \* the Notebook returned by parseNotebook (<<>> before)
    pageIdx,         \* loop index of convertNoteToPdf
    renderedPages,   \* convertNoteToPdf's pageImages array
    \* a BinaryReader driven operation by operation
    lastOp,          \* the last operation, its argument and its outcome
    \* two renderPage calls on one reader
    tasks, pngOf,
    \* parallelLimit
    items, currentIndex, workers, results, dlPc,
    limit,           \* the concurrency limit passed to parallelLimit
    calls,           \* per item index, the number of calls of fn made for it
    \* NoteImporter.importNotesWithProgress
    impEntry,        \* "batch" | "single": the mode importNotesWithProgress chose
    impNotes,        \* notes.length
    batch,           \* the locals of importNotesWithProgressBatch
    single,          \* the locals of importNotesWithProgressSingle
    tempDirs,        \* the two temporary directories on the file system
    cleanups,        \* the directories cleanupTempDir was called for, in order
    impReturn,       \* how the promise of importNotesWithProgress settled
    \* PdfConverter.convert
    cvtMode,         \* this.mode: "cli" | "builtin"
    cvtPc,           \* the await the call is at, or "resolved" | "rejected"
    cvtResult,       \* the ConversionResult returned (<<>> before)
    cvtCause,        \* what went wrong during the call ("" when nothing did)
    tempFiles,       \* the temporary input and output file of convertWithCli
    \* the trash of the plugin
    trashedNoteIds,  \* this.settings.trashedNoteIds
    trashOp,         \* the last call: <<name, noteId>> (<<>> before the first)
    pendingSaves,    \* the calls awaiting saveSettings, oldest first
    notices          \* the number of 'Note trashed' notices shown

gateVars   == <<noteData, pos, entry, convPc, convError, blocksResolved, footerMap>>
rleVars    == <<compressedData, width, height, i, holder, decompressed, rlePc>>
renderVars == <<layers, layerIdx, canvas, layerPixels, renderPc>>
pdfVars    == <<pageImages, chunks, xrefOffsets, byteOffset, xrefStart, pageI, pdfPc>>
convVars   == <<pageEntries, notebook, pageIdx, renderedPages>>
concVars   == <<tasks, pngOf>>
dlVars     == <<items, currentIndex, workers, results, dlPc, limit, calls>>
impVars    == <<impEntry, impNotes, batch, single, tempDirs, cleanups, impReturn>>
cvtVars    == <<cvtMode, cvtPc, cvtResult, cvtCause, tempFiles>>
trashVars  == <<trashedNoteIds, trashOp, pendingSaves, notices>>
appVars    == <<impVars, cvtVars, trashVars>>
extVars    == <<convVars, lastOp, concVars, dlVars, appVars>>
vars       == <<gateVars, rleVars, renderVars, pdfVars, extVars>>

---------------------------------------------------------------------------
(* Generic helpers *)

Min(a, b) == IF a < b THEN a ELSE b

Max(a, b) == IF a > b THEN a ELSE b

RECURSIVE Repeat(_, _)
Repeat(x, n) == IF n <= 0 THEN <<>> ELSE <<x>> \o Repeat(x, n - 1)

\* data.slice(from, to) with 0-based, end-exclusive offsets
Slice(data, from, to) == SubSeq(data, from + 1, to)

StartsWith(s, prefix) ==
    /\ Len(s) >= Len(prefix)
    /\ SubSeq(s, 1, Len(prefix)) = prefix

\* String.prototype.includes
Includes(s, needle) ==
    \E k \in 0..(Len(s) - Len(needle)) : SubSeq(s, k + 1, k + Len(needle)) = needle

\* encode a value < 2^31 as 4 little-endian bytes (used to build input buffers)
U32LE(n) == << n % 256, (n \div 256) % 256, (n \div 65536) % 256, (n \div 16777216) % 256 >>

\* Number of decimal digits of n.toString() for an integer n >= 0
RECURSIVE Digits(_)
Digits(n) == IF n < 10 THEN 1 ELSE 1 + Digits(n \div 10)

\* The value of parseInt(...) on text that is not a number.  Every comparison
\* with NaN is false; the operators below that receive a possibly-NaN number
\* test for it before comparing.
NaN == 0 - 1073741823

---------------------------------------------------------------------------
(* Program constants (note-parser.ts lines 11-28) *)

A5X_WIDTH == 1404

A5X_HEIGHT == 1872

A5X2_WIDTH == 1920

A5X2_HEIGHT == 2560

MIN_NOTE_FILE_SIZE == 100

\* 'noteSN_FILE_VER_', 'SN_FILE_VER_', 'SN_FILE_ASA_' as code units
VALID_SIGNATURE_PREFIXES ==
    { <<110,111,116,101,83,78,95,70,73,76,69,95,86,69,82,95>>,
      <<83,78,95,70,73,76,69,95,86,69,82,95>>,
      <<83,78,95,70,73,76,69,95,65,83,65,95>> }

---------------------------------------------------------------------------
(* new TextDecoder().decode(bytes): UTF-8 to code units.                   *)
(* One-, two- and three-byte sequences are decoded; any other byte gives   *)
(* U+FFFD (65533).  With the default ignoreBOM = false a leading U+FEFF    *)
(* (bytes EF BB BF) is removed from the output.                            *)

IsCont(b) == b \in 128..191

\* the decoding is the identity on a run of ASCII bytes, so the run before
\* the first byte >= 128 is copied and the sequence at that byte is decoded
RECURSIVE Utf8Units(_)
Utf8Units(bytes) ==
    LET n     == Len(bytes)
        high  == { k \in 1..n : bytes[k] >= 128 }
        at    == IF high = {} THEN n + 1 ELSE CHOOSE k \in high : \A j \in high : k <= j
        ascii == SubSeq(bytes, 1, at - 1)
        b     == bytes[at]
    IN  IF at > n THEN bytes
        ELSE IF b \in 194..223 /\ n >= at + 1 /\ IsCont(bytes[at + 1])
          THEN ascii \o <<(b - 192) * 64 + (bytes[at + 1] - 128)>>
               \o Utf8Units(SubSeq(bytes, at + 2, n))
        ELSE IF /\ b \in 224..239 /\ n >= at + 2
                /\ IsCont(bytes[at + 1]) /\ IsCont(bytes[at + 2])
                /\ (b = 224 => bytes[at + 1] >= 160)
                /\ (b = 237 => bytes[at + 1] <= 159)
          THEN ascii \o <<(b - 224) * 4096 + (bytes[at + 1] - 128) * 64
                           + (bytes[at + 2] - 128)>>
               \o Utf8Units(SubSeq(bytes, at + 3, n))
        ELSE ascii \o <<65533>> \o Utf8Units(SubSeq(bytes, at + 1, n))

TextDecode(bytes) ==
    LET u == Utf8Units(bytes)
    IN  IF u # <<>> /\ u[1] = 65279 THEN Tail(u) ELSE u

\* String.prototype.toLowerCase on the code units the model uses
ToLowerCase(s) == [k \in 1..Len(s) |-> IF s[k] \in 65..90 THEN s[k] + 32 ELSE s[k]]

---------------------------------------------------------------------------
(* BinaryReader (note-parser.ts lines 51-116).  Each operation returns a   *)
(* record: ok = FALSE when the operation throws; otherwise the new cursor  *)
(* and, for reads, the value.                                              *)

\* checkBounds(pos, size): pos >= 0 && pos + size <= data.length
checkBounds(data, p, size) ==
    /\ p # NaN /\ size # NaN
    /\ p >= 0
    /\ p + size <= Len(data)

\* seek(pos): throws if (pos < 0 || pos > length); a NaN passes both tests
seek(data, p) ==
    IF p # NaN /\ (p < 0 \/ p > Len(data))
      THEN [ok |-> FALSE, pos |-> NaN]
      ELSE [ok |-> TRUE, pos |-> p]

\* seekEnd(offset): newPos = length + offset, NaN when offset is
seekEnd(data, offset) ==
    LET newPos == IF offset = NaN THEN NaN ELSE Len(data) + offset
    IN  IF newPos # NaN /\ (newPos < 0 \/ newPos > Len(data))
          THEN [ok |-> FALSE, pos |-> NaN]
          ELSE [ok |-> TRUE, pos |-> newPos]

\* DataView.getUint32(pos, true).  The input buffers of the model keep the
\* top byte below 128, so that the value stays below 2^31.
readU32LE(data, p) ==
    IF ~checkBounds(data, p, 4)
      THEN [ok |-> FALSE, pos |-> p, val |-> 0]
      ELSE [ok |-> TRUE, pos |-> p + 4,
            val |-> data[p + 1] + 256 * data[p + 2] + 65536 * data[p + 3]
                    + 16777216 * data[p + 4]]

readBytes(data, p, length) ==
    IF (length # NaN /\ length < 0) \/ ~checkBounds(data, p, length)
      THEN [ok |-> FALSE, pos |-> p, val |-> <<>>]
      ELSE [ok |-> TRUE, pos |-> p + length, val |-> Slice(data, p, p + length)]

readString(data, p, length) ==
    LET r == readBytes(data, p, length)
    IN  [ok |-> r.ok, pos |-> r.pos, val |-> TextDecode(r.val)]

\* getSignature: reader.seek(4); reader.readString(20)
getSignature(data) ==
    LET s == seek(data, 4)
    IN  IF ~s.ok THEN [ok |-> FALSE, pos |-> s.pos, val |-> <<>>]
        ELSE readString(data, s.pos, 20)

---------------------------------------------------------------------------
(* validateNoteFile (lines 121-144): the kind of Error thrown, "" if none, *)
(* and the cursor the reader is left at.                                   *)

\* '<!doctype' and '<html'
DOCTYPE_TAG == <<60,33,100,111,99,116,121,112,101>>

HTML_TAG == <<60,104,116,109,108>>

validateNoteFile(data) ==
    IF Len(data) = 0
      THEN [error |-> "empty", pos |-> 0]
    ELSE IF Len(data) < MIN_NOTE_FILE_SIZE
      THEN [error |-> "tooSmall", pos |-> 0]
    ELSE
      LET sig     == getSignature(data)
          isValid == \E prefix \in VALID_SIGNATURE_PREFIXES : StartsWith(sig.val, prefix)
      IN  IF ~sig.ok THEN [error |-> "outOfBounds", pos |-> sig.pos]
          ELSE IF isValid THEN [error |-> "", pos |-> sig.pos]
          ELSE
            LET first      == readBytes(data, 0, Min(50, Len(data)))
                firstBytes == ToLowerCase(TextDecode(first.val))
            IN  IF Includes(firstBytes, DOCTYPE_TAG) \/ Includes(firstBytes, HTML_TAG)
                  THEN [error |-> "html", pos |-> first.pos]
                  ELSE [error |-> "invalidSignature", pos |-> first.pos]

(* parseMetadataBlock (lines 149-179), up to the block's text: ok = FALSE  *)
(* when a reader operation throws, otherwise content is the decoded text   *)
(* of the block (<<>> for the empty record).                               *)
parseMetadataBlock(data, p, address) ==
    IF address = 0
      THEN [ok |-> TRUE, content |-> <<>>, warned |-> FALSE, pos |-> p]
    ELSE IF address # NaN /\ (address < 0 \/ address > Len(data) - 4)
      THEN [ok |-> TRUE, content |-> <<>>, warned |-> TRUE, pos |-> p]
    ELSE
      LET s == seek(data, address)
          b == readU32LE(data, s.pos)
      IN  IF ~s.ok
            THEN [ok |-> FALSE, content |-> <<>>, warned |-> FALSE, pos |-> p]
          ELSE IF ~b.ok
            THEN [ok |-> FALSE, content |-> <<>>, warned |-> FALSE, pos |-> s.pos]
          ELSE IF b.val <= 0 \/ b.val > Len(data) - address - 4
            THEN [ok |-> TRUE, content |-> <<>>, warned |-> TRUE, pos |-> b.pos]
          ELSE
            LET c == readString(data, b.pos, b.val)
            IN  [ok |-> c.ok, content |-> c.val, warned |-> FALSE, pos |-> c.pos]

---------------------------------------------------------------------------
(* Input buffers of the signature gate.  A buffer is                       *)
(*   4 head bytes | 20 signature bytes | one metadata block | filler |     *)
(*   4 bytes of footer address                                             *)
(* cut to the chosen length when that is shorter than the head and the     *)
(* signature.                                                              *)

BOM == <<239, 187, 191>>

SigLeads ==
    { <<>>,                      \* nothing before the version text
      <<110,111,116,101>>,       \* 'note'
      BOM,                       \* EF BB BF
      <<255>>,                   \* a byte that is not UTF-8
      <<32>>,                    \* ' '
      <<76, 62>>,                \* 'L>'      (completes '<HTM' to '<HTML>')
      <<67,84,89,80,69,32>> }    \* 'CTYPE '  (completes '<!DO' to '<!DOCTYPE ')

SigBodies ==
    { <<83,78,95,70,73,76,69,95,86,69,82,95>>,     \* 'SN_FILE_VER_'
      <<83,78,95,70,73,76,69,95,65,83,65,95>>,     \* 'SN_FILE_ASA_'
      <<83,78,95,70,73,76,69,95,86,69,83,95>> }    \* 'SN_FILE_VES_'

NoteHeads ==
    { <<110,111,116,101>>,       \* 'note'
      <<60,72,84,77>>,           \* '<HTM'
      <<60,33,68,79>> }          \* '<!DO'

FooterAddrs == { 0, 24, 5000 }

ExtraBytes == 20

NoteLens == { 0, 10, MIN_NOTE_FILE_SIZE - 1, MIN_NOTE_FILE_SIZE,
              MIN_NOTE_FILE_SIZE + ExtraBytes }

\* '<PAGE1:0>'
SampleBlock == U32LE(9) \o <<60,80,65,71,69,49,58,48,62>>

MkNote(head, lead, body, len, footer) ==
    LET sig  == SubSeq(lead \o body \o Repeat(50, 20), 1, 20)
        full == head \o sig \o SampleBlock
                \o Repeat(50, len - 28 - Len(SampleBlock)) \o U32LE(footer)
    IN  IF len >= 28 + Len(SampleBlock) THEN full
        ELSE SubSeq(head \o sig, 1, Min(len, 24))

NoteBuffers ==
    { MkNote(hd, ld, bd, n, f) :
        hd \in NoteHeads, ld \in SigLeads, bd \in SigBodies,
        n \in NoteLens, f \in FooterAddrs }

---------------------------------------------------------------------------
(* Idle values of the components a specification does not exercise *)

GateIdle ==
    /\ noteData = <<>> /\ pos = 0 /\ entry = "none" /\ convPc = "idle"
    /\ convError = "" /\ blocksResolved = 0 /\ footerMap = <<>>

RleIdle ==
    /\ compressedData = <<>> /\ width = 0 /\ height = 0 /\ i = 0
    /\ holder = <<>> /\ decompressed = <<>> /\ rlePc = "idle"

RenderIdle ==
    /\ layers = <<>> /\ layerIdx = 0 /\ canvas = <<>> /\ layerPixels = <<>>
    /\ renderPc = "idle"

PdfIdle ==
    /\ pageImages = <<>> /\ chunks = <<>> /\ xrefOffsets = <<>> /\ byteOffset = 0
    /\ xrefStart = 0 /\ pageI = 0 /\ pdfPc = "idle"

ConvIdle ==
    /\ pageEntries = <<>> /\ notebook = <<>> /\ pageIdx = 0 /\ renderedPages = <<>>

ReaderIdle == lastOp = <<>>

ConcIdle == tasks = <<>> /\ pngOf = <<>>

DlIdle ==
    /\ items = 0 /\ currentIndex = 0 /\ workers = <<>> /\ results = <<>>
    /\ dlPc = "idle" /\ limit = 0 /\ calls = <<>>

ImpIdle ==
    /\ impEntry = "none" /\ impNotes = 0 /\ batch = <<>> /\ single = <<>>
    /\ tempDirs = <<>> /\ cleanups = <<>> /\ impReturn = <<>>

CvtIdle ==
    /\ cvtMode = "none" /\ cvtPc = "idle" /\ cvtResult = <<>> /\ cvtCause = ""
    /\ tempFiles = <<>>

TrashIdle ==
    /\ trashedNoteIds = <<>> /\ trashOp = <<>> /\ pendingSaves = <<>> /\ notices = 0

AppIdle == ImpIdle /\ CvtIdle /\ TrashIdle

ExtIdle == ConvIdle /\ ReaderIdle /\ ConcIdle /\ DlIdle /\ AppIdle

---------------------------------------------------------------------------
(* The two entry points, convertNoteToPdf (lines 591-621) and getNoteInfo  *)
(* (lines 626-644), up to the resolution of the footer record.             *)

InitGate ==
    /\ noteData \in NoteBuffers
    /\ entry \in {"convertNoteToPdf", "getNoteInfo"}
    /\ pos = 0 /\ convPc = "start" /\ convError = ""
    /\ blocksResolved = 0 /\ footerMap = <<>>
    /\ RleIdle /\ RenderIdle /\ PdfIdle /\ ExtIdle

\* new BinaryReader(noteData); validateNoteFile(reader)
Validate ==
    /\ convPc = "start"
    /\ LET v == validateNoteFile(noteData)
       IN  /\ pos' = v.pos
           /\ convError' = v.error
           /\ convPc' = IF v.error = "" THEN "validated" ELSE "failed"
    /\ UNCHANGED <<noteData, entry, blocksResolved, footerMap>>
    /\ UNCHANGED <<rleVars, renderVars, pdfVars, extVars>>

\* parseNotebook, lines 213-219: signature, footer address, footer record
ParseFooter ==
    /\ convPc = "validated"
    /\ LET sig  == getSignature(noteData)
           e    == seekEnd(noteData, -4)
           addr == readU32LE(noteData, e.pos)
           rec  == parseMetadataBlock(noteData, addr.pos, addr.val)
       IN  IF sig.ok /\ e.ok /\ addr.ok
             THEN /\ blocksResolved' = blocksResolved + 1
                  /\ pos' = rec.pos
                  /\ footerMap' = rec.content
                  /\ convPc' = IF rec.ok THEN "parsed" ELSE "failed"
                  /\ convError' = IF rec.ok THEN convError ELSE "outOfBounds"
             ELSE /\ convPc' = "failed"
                  /\ convError' = "outOfBounds"
                  /\ UNCHANGED <<pos, footerMap, blocksResolved>>
    /\ UNCHANGED <<noteData, entry>>
    /\ UNCHANGED <<rleVars, renderVars, pdfVars, extVars>>

NextGate == Validate \/ ParseFooter

SpecGate == InitGate /\ [][NextGate]_vars

---------------------------------------------------------------------------
(* decodeRLE (lines 270-332).                                              *)
(*                                                                         *)
(* The array `decompressed` is kept as the sequence of the runs pushed to  *)
(* it: each push loop `for (j < n) decompressed.push(c)` with n > 0        *)
(* appends one run [color |-> c, count |-> n], and a loop with n <= 0      *)
(* appends nothing.  Expand gives the array itself.                        *)

Push(out, c, n) == IF n > 0 THEN Append(out, [color |-> c, count |-> n]) ELSE out

\* decompressed.length
RECURSIVE PixelCount(_)
PixelCount(out) ==
    IF out = <<>> THEN 0 ELSE out[1].count + PixelCount(Tail(out))

\* decompressed.length = n, for n <= decompressed.length
RECURSIVE TruncateRuns(_, _)
TruncateRuns(out, n) ==
    IF n <= 0 \/ out = <<>> THEN <<>>
    ELSE IF out[1].count >= n THEN << [color |-> out[1].color, count |-> n] >>
    ELSE <<out[1]>> \o TruncateRuns(Tail(out), n - out[1].count)

\* the array the runs stand for
RECURSIVE Expand(_)
Expand(out) ==
    IF out = <<>> THEN <<>>
    ELSE Repeat(out[1].color, out[1].count) \o Expand(Tail(out))

\* mutants of the bit arithmetic: the mask forgotten, a shift by 6, the
\* high bit never seen
And7F_NoMask(b) == b

Shl7_By6(x) == x * 64

HighBit_Never(b) == FALSE

\* (lengthCode & 0x7f), (x << 7) and (lengthCode & 0x80) !== 0 on bytes
And7F(b) == b % 128

Shl7(x) == x * 128

HighBit(b) == (b \div 128) % 2 = 1

\* 0x4000
MAX_RUN == 16384

\* 0x62
TRANSPARENT == 98

\* mutant: on a colour change the held run is dropped instead of flushed
decodePair_DropHeld(d, data) ==
    LET colorCode  == data[d.i + 1]
        lengthCode == data[d.i + 2]
        next       == d.i + 2
    IN  IF d.holder # <<>>
          THEN IF colorCode = d.holder[1]
                 THEN [i |-> next, holder |-> <<>>,
                       out |-> Push(d.out, colorCode,
                                    1 + lengthCode + (And7F(d.holder[2]) + 1) * 128)]
                 ELSE [i |-> next, holder |-> <<>>,
                       out |-> Push(d.out, colorCode, lengthCode + 1)]
        ELSE IF lengthCode = 255
          THEN [i |-> next, holder |-> <<>>, out |-> Push(d.out, colorCode, 16384)]
        ELSE IF lengthCode >= 128
          THEN [i |-> next, holder |-> <<colorCode, lengthCode>>, out |-> d.out]
        ELSE [i |-> next, holder |-> <<>>, out |-> Push(d.out, colorCode, lengthCode + 1)]

\* mutant: with no pair held, the high bit is tested before 0xFF, so a
\* length code of 0xFF is held as an escape
decodePair_EscapeBeforeFF(d, data) ==
    LET colorCode  == data[d.i + 1]
        lengthCode == data[d.i + 2]
        next       == d.i + 2
    IN  IF d.holder # <<>>
          THEN IF colorCode = d.holder[1]
                 THEN [i |-> next, holder |-> <<>>,
                       out |-> Push(d.out, colorCode,
                                    1 + lengthCode + (And7F(d.holder[2]) + 1) * 128)]
                 ELSE [i |-> next, holder |-> <<>>,
                       out |-> Push(Push(d.out, d.holder[1], (And7F(d.holder[2]) + 1) * 128),
                                    colorCode, lengthCode + 1)]
        ELSE IF lengthCode >= 128
          THEN [i |-> next, holder |-> <<colorCode, lengthCode>>, out |-> d.out]
        ELSE [i |-> next, holder |-> <<>>, out |-> Push(d.out, colorCode, lengthCode + 1)]

\* mutant: the 0xFF rule and the high-bit rule are tested before the held
\* pair, which is resolved only by a pair with a plain length code
decodePair_HolderLast(d, data) ==
    LET colorCode  == data[d.i + 1]
        lengthCode == data[d.i + 2]
        next       == d.i + 2
    IN  IF lengthCode = 255
          THEN [i |-> next, holder |-> d.holder, out |-> Push(d.out, colorCode, 16384)]
        ELSE IF lengthCode >= 128
          THEN [i |-> next, holder |-> <<colorCode, lengthCode>>, out |-> d.out]
        ELSE IF d.holder # <<>>
          THEN IF colorCode = d.holder[1]
                 THEN [i |-> next, holder |-> <<>>,
                       out |-> Push(d.out, colorCode,
                                    1 + lengthCode + (And7F(d.holder[2]) + 1) * 128)]
                 ELSE [i |-> next, holder |-> <<>>,
                       out |-> Push(Push(d.out, d.holder[1], (And7F(d.holder[2]) + 1) * 128),
                                    colorCode, lengthCode + 1)]
        ELSE [i |-> next, holder |-> <<>>, out |-> Push(d.out, colorCode, lengthCode + 1)]

(* One iteration of the while loop (lines 280-310) on the decoder state    *)
(* d = [i, holder, out]; holder is <<>> for null.                          *)
decodePair(d, data) ==
    LET colorCode  == data[d.i + 1]
        lengthCode == data[d.i + 2]
        next       == d.i + 2
    IN  IF d.holder # <<>>
          THEN LET prevColorCode  == d.holder[1]
                   prevLengthCode == d.holder[2]
               IN  IF colorCode = prevColorCode
                     THEN [i |-> next, holder |-> <<>>,
                           out |-> Push(d.out, colorCode,
                                        1 + lengthCode + Shl7(And7F(prevLengthCode) + 1))]
                     ELSE [i |-> next, holder |-> <<>>,
                           out |-> Push(Push(d.out, prevColorCode,
                                             Shl7(And7F(prevLengthCode) + 1)),
                                        colorCode, lengthCode + 1)]
        ELSE IF lengthCode = 255
          THEN [i |-> next, holder |-> <<>>, out |-> Push(d.out, colorCode, MAX_RUN)]
        ELSE IF HighBit(lengthCode)
          THEN [i |-> next, holder |-> <<colorCode, lengthCode>>, out |-> d.out]
        ELSE [i |-> next, holder |-> <<>>, out |-> Push(d.out, colorCode, lengthCode + 1)]

\* the loop continues: i < length and not (i + 1 >= length)
morePairs(d, data) == d.i < Len(data) /\ ~(d.i + 1 >= Len(data))

\* "Handle remaining holder" (lines 314-321)
flushHolder(d, expectedLen) ==
    IF d.holder # <<>>
      THEN LET remainingLen == expectedLen - PixelCount(d.out)
               tailLength   == Min(Shl7(And7F(d.holder[2]) + 1), remainingLen)
           IN  [d EXCEPT !.out = Push(d.out, d.holder[1], tailLength)]
      ELSE d

\* mutant: pads, never truncates
padOrTruncate_PadOnly(out, expectedLen) ==
    Push(out, TRANSPARENT, expectedLen - PixelCount(out))

\* "Pad or truncate to expected size" (lines 324-329)
padOrTruncate(out, expectedLen) ==
    LET padded == Push(out, TRANSPARENT, expectedLen - PixelCount(out))
    IN  IF PixelCount(padded) > expectedLen
          THEN TruncateRuns(padded, expectedLen)
          ELSE padded

RECURSIVE runPairs(_, _)
runPairs(d, data) ==
    IF morePairs(d, data) THEN runPairs(decodePair(d, data), data) ELSE d

\* decodeRLE as a function: the raster as runs
decodeRLE(data, w, h) ==
    LET d == runPairs([i |-> 0, holder |-> <<>>, out |-> <<>>], data)
    IN  padOrTruncate(flushHolder(d, w * h).out, w * h)

---------------------------------------------------------------------------
(* decodeRLE step by step *)

ColorBytes == { 97, 98, 101, 200 }

LengthBytes == { 0, 3, 127, 128, 133, 254, 255 }

MaxRleBytes == 4

\* byte sequences of length n: colour codes at even offsets, length codes at odd
RleInputs(n) ==
    { s \in [1..n -> ColorBytes \cup LengthBytes] :
        \A k \in 1..n : s[k] \in (IF k % 2 = 1 THEN ColorBytes ELSE LengthBytes) }

RleDims == { <<0, 7>>, <<2, 2>>, <<25, 40>>, <<A5X_WIDTH, A5X_HEIGHT>> }

InitRLE ==
    /\ \E n \in 0..MaxRleBytes : compressedData \in RleInputs(n)
    /\ \E wh \in RleDims : width = wh[1] /\ height = wh[2]
    /\ i = 0 /\ holder = <<>> /\ decompressed = <<>> /\ rlePc = "loop"
    /\ GateIdle /\ RenderIdle /\ PdfIdle /\ ExtIdle

rleState == [i |-> i, holder |-> holder, out |-> decompressed]

RlePair ==
    /\ rlePc = "loop"
    /\ morePairs(rleState, compressedData)
    /\ LET d == decodePair(rleState, compressedData)
       IN  i' = d.i /\ holder' = d.holder /\ decompressed' = d.out
    /\ UNCHANGED <<compressedData, width, height, rlePc>>
    /\ UNCHANGED <<gateVars, renderVars, pdfVars, extVars>>

RleExit ==
    /\ rlePc = "loop"
    /\ ~morePairs(rleState, compressedData)
    /\ rlePc' = "tail"
    /\ UNCHANGED <<compressedData, width, height, i, holder, decompressed>>
    /\ UNCHANGED <<gateVars, renderVars, pdfVars, extVars>>

RleTail ==
    /\ rlePc = "tail"
    /\ decompressed' = flushHolder(rleState, width * height).out
    /\ rlePc' = "pad"
    /\ UNCHANGED <<compressedData, width, height, i, holder>>
    /\ UNCHANGED <<gateVars, renderVars, pdfVars, extVars>>

RlePad ==
    /\ rlePc = "pad"
    /\ decompressed' = padOrTruncate(decompressed, width * height)
    /\ rlePc' = "done"
    /\ UNCHANGED <<compressedData, width, height, i, holder>>
    /\ UNCHANGED <<gateVars, renderVars, pdfVars, extVars>>

NextRLE == RlePair \/ RleExit \/ RleTail \/ RlePad

SpecRLE == InitRLE /\ [][NextRLE]_vars

---------------------------------------------------------------------------
(* toRGBA (lines 337-357) and the compositing loops of renderPage          *)
(* (lines 421-470).  The canvas is kept as a sequence of pixels            *)
(* <<r, g, b, a>>: pixel k + 1 stands for canvas[4k .. 4k + 3].            *)

toRGBA(pixelByte) ==
    CASE pixelByte = 97  -> <<0, 0, 0, 255>>
      [] pixelByte = 101 -> <<255, 255, 255, 255>>
      [] pixelByte = 98  -> <<0, 0, 0, 0>>
      [] pixelByte \in {99, 157, 158}  -> <<157, 157, 157, 255>>
      [] pixelByte \in {100, 201, 202} -> <<201, 201, 201, 255>>
      [] OTHER -> <<pixelByte, pixelByte, pixelByte, 255>>

\* mutant: the blend truncates instead of rounding
blend_Truncates(src, dst, a) == (src * a + dst * (255 - a)) \div 255

\* Math.round(src * alpha + dst * invAlpha) with alpha = a / 255 and
\* invAlpha = 1 - alpha: the nearest integer to (src*a + dst*(255 - a)) / 255.
\* That quotient is never halfway between two integers, and it stays further
\* from the halfway points than the rounding error of the three floating
\* point operations, so the integer formula gives the same result.
blend(src, dst, a) == (2 * (src * a + dst * (255 - a)) + 255) \div 510

\* mutant: the opaque branch forgets the blue channel
compositePixel_KeepsBlue(dst, src) ==
    IF src[4] = 0 THEN dst
    ELSE IF src[4] = 255 THEN <<src[1], src[2], dst[3], 255>>
    ELSE <<blend(src[1], dst[1], src[4]), blend(src[2], dst[2], src[4]),
           blend(src[3], dst[3], src[4]), dst[4]>>

\* mutant: the blend branch blends the alpha channel like the colours
compositePixel_BlendsAlpha(dst, src) ==
    IF src[4] = 0 THEN dst
    ELSE IF src[4] = 255 THEN <<src[1], src[2], src[3], 255>>
    ELSE <<blend(src[1], dst[1], src[4]), blend(src[2], dst[2], src[4]),
           blend(src[3], dst[3], src[4]), blend(src[4], dst[4], src[4])>>

\* one pixel of a layer onto one pixel of the canvas (lines 423-439, 450-469)
compositePixel(dst, src) ==
    IF src[4] = 0 THEN dst
    ELSE IF src[4] = 255 THEN <<src[1], src[2], src[3], 255>>
    ELSE <<blend(src[1], dst[1], src[4]), blend(src[2], dst[2], src[4]),
           blend(src[3], dst[3], src[4]), dst[4]>>

\* lines 421-440: an RLE layer, given as colour codes
compositeRLE(cv, codes) == [k \in 1..Len(cv) |-> compositePixel(cv[k], toRGBA(codes[k]))]

\* lines 447-470: a PNG layer, given as RGBA pixels
compositePNG(cv, rgba) == [k \in 1..Len(cv) |-> compositePixel(cv[k], rgba[k])]

\* lines 400-406
whiteCanvas(w, h) == [k \in 1..(w * h) |-> <<255, 255, 255, 255>>]

\* rgbaToRgb (lines 484-492): the three colour bytes of every pixel
rgbaToRgb(rgba) == [k \in 1..Len(rgba) |-> <<rgba[k][1], rgba[k][2], rgba[k][3]>>]

\* lines 411-413: seek to the bitmap, read its length, read its bytes
readBitmap(data, address) ==
    LET s == seek(data, address)
        b == readU32LE(data, s.pos)
        c == readBytes(data, b.pos, b.val)
    IN  IF ~s.ok THEN [ok |-> FALSE, pos |-> s.pos, val |-> <<>>]
        ELSE IF ~b.ok THEN [ok |-> FALSE, pos |-> b.pos, val |-> <<>>]
        ELSE c

---------------------------------------------------------------------------
(* renderPage (lines 393-479), one layer per step.  The one asynchronous   *)
(* point, `await decodePNG(...)`, separates RenderPngStart from            *)
(* RenderPngDone.                                                          *)

RenderWidth == 2

RenderHeight == 1

MaxLayers == 2

(* The buffer of the rendered document:                                    *)
(*   0  four bytes that are no block                                       *)
(*   4  a block of 4 bytes: (0x61, 0) (0x62, 0)                            *)
(*  12  a block of 2 bytes: (0x9d, 1)                                      *)
(*  18  a block whose length prefix, 200, exceeds the buffer               *)
RenderBuffer ==
    <<110, 111, 116, 101>>
    \o U32LE(4) \o <<97, 0, 98, 0>>
    \o U32LE(2) \o <<157, 1>>
    \o U32LE(200) \o <<1, 2>>

BitmapAddrs == { 0, 4, 12, 18, Len(RenderBuffer) + 6, NaN }

Protocols == { "RATTA_RLE", "PNG", "SVG" }

LayerSet == [ protocol : Protocols, bitmapAddress : BitmapAddrs ]

\* what decodePNG can resolve to (lines 363-388): null, written <<>>, or
\* width * height RGBA pixels
PngPixels == { <<0, 0, 0, 128>>, <<0, 0, 0, 255>>, <<255, 0, 10, 0>>, <<200, 100, 50, 77>> }

PngRasters(n) ==
    { [k \in 1..n |-> IF k % 2 = 1 THEN p ELSE q] : p \in PngPixels, q \in PngPixels }

PngResults(n) == PngRasters(n) \cup { <<>> }

InitRender ==
    /\ noteData = RenderBuffer /\ pos = 0
    /\ entry = "convertNoteToPdf" /\ convPc = "render" /\ convError = ""
    /\ blocksResolved = 0 /\ footerMap = <<>>
    /\ width = RenderWidth /\ height = RenderHeight
    /\ compressedData = <<>> /\ i = 0 /\ holder = <<>> /\ decompressed = <<>>
    /\ rlePc = "idle"
    /\ \E n \in 0..MaxLayers : layers \in [1..n -> LayerSet]
    /\ layerIdx = 0
    /\ canvas = whiteCanvas(RenderWidth, RenderHeight)
    /\ layerPixels = <<>>
    /\ renderPc = "loop"
    /\ PdfIdle /\ ExtIdle

layer == layers[layerIdx + 1]

atLayer == renderPc = "loop" /\ layerIdx < Len(layers)

renderFrame == <<noteData, entry, convPc, convError, blocksResolved, footerMap,
                 compressedData, width, height, i, holder, decompressed, rlePc, layers>>

\* line 409: if (layer.bitmapAddress === 0) continue
RenderSkipEmpty ==
    /\ atLayer
    /\ layer.bitmapAddress = 0
    /\ layerIdx' = layerIdx + 1
    /\ layerPixels' = <<>>
    /\ UNCHANGED <<pos, canvas, renderPc>>
    /\ UNCHANGED <<renderFrame, pdfVars, extVars>>

\* lines 411-413 throw: the error leaves renderPage
RenderReadFails ==
    /\ atLayer
    /\ layer.bitmapAddress # 0
    /\ ~readBitmap(noteData, layer.bitmapAddress).ok
    /\ pos' = readBitmap(noteData, layer.bitmapAddress).pos
    /\ renderPc' = "error"
    /\ UNCHANGED <<layerIdx, canvas, layerPixels>>
    /\ UNCHANGED <<renderFrame, pdfVars, extVars>>

\* lines 417-440
RenderRLE ==
    /\ atLayer
    /\ layer.bitmapAddress # 0
    /\ LET r == readBitmap(noteData, layer.bitmapAddress)
       IN  /\ r.ok
           /\ layer.protocol = "RATTA_RLE"
           /\ pos' = r.pos
           /\ layerPixels' = Expand(decodeRLE(r.val, width, height))
           /\ canvas' = compositeRLE(canvas, layerPixels')
    /\ layerIdx' = layerIdx + 1
    /\ UNCHANGED renderPc
    /\ UNCHANGED <<renderFrame, pdfVars, extVars>>

\* lines 441-443, up to the await
RenderPngStart ==
    /\ atLayer
    /\ layer.bitmapAddress # 0
    /\ LET r == readBitmap(noteData, layer.bitmapAddress)
       IN  /\ r.ok
           /\ layer.protocol = "PNG"
           /\ pos' = r.pos
    /\ renderPc' = "await"
    /\ layerPixels' = <<>>
    /\ UNCHANGED <<layerIdx, canvas>>
    /\ UNCHANGED <<renderFrame, pdfVars, extVars>>

\* mutant: a failed decode clears the canvas
afterPNG_ClearsOnFailure(cv, result) ==
    IF result # <<>> THEN compositePNG(cv, result)
    ELSE [k \in 1..Len(cv) |-> <<255, 255, 255, 255>>]

\* lines 445-470: if (layerPixels) { composite }, on the canvas cv
afterPNG(cv, result) ==
    IF result # <<>> THEN compositePNG(cv, result) ELSE cv

\* lines 443-471, from the await on
RenderPngDone ==
    /\ renderPc = "await"
    /\ \E result \in PngResults(width * height) :
          /\ layerPixels' = result
          /\ canvas' = afterPNG(canvas, result)
    /\ layerIdx' = layerIdx + 1
    /\ renderPc' = "loop"
    /\ UNCHANGED pos
    /\ UNCHANGED <<renderFrame, pdfVars, extVars>>

\* lines 472-475
RenderUnknown ==
    /\ atLayer
    /\ layer.bitmapAddress # 0
    /\ LET r == readBitmap(noteData, layer.bitmapAddress)
       IN  /\ r.ok
           /\ layer.protocol \notin {"RATTA_RLE", "PNG"}
           /\ pos' = r.pos
    /\ layerIdx' = layerIdx + 1
    /\ layerPixels' = <<>>
    /\ UNCHANGED <<canvas, renderPc>>
    /\ UNCHANGED <<renderFrame, pdfVars, extVars>>

\* line 478
RenderReturn ==
    /\ renderPc = "loop"
    /\ layerIdx = Len(layers)
    /\ renderPc' = "done"
    /\ UNCHANGED <<pos, layerIdx, canvas, layerPixels>>
    /\ UNCHANGED <<renderFrame, pdfVars, extVars>>

NextRender ==
    \/ RenderSkipEmpty \/ RenderReadFails \/ RenderRLE \/ RenderPngStart
    \/ RenderPngDone \/ RenderUnknown \/ RenderReturn

SpecRender == InitRender /\ [][NextRender]_vars

---------------------------------------------------------------------------
(* buildPDF (lines 501-584).                                               *)
(*                                                                         *)
(* A chunk is one argument of write(): kind names it, obj is the number of *)
(* the object whose declaration "obj 0 obj" is the chunk's first text (0   *)
(* when it starts no object), chars is the length of the string (or of the *)
(* byte array), bytes the length of its UTF-8 encoding, value the offset a *)
(* cross-reference entry or the startxref line prints (-1 for none), refs  *)
(* the object numbers the chunk refers to.  The lengths are those of the   *)
(* template literals of the source, plus the digits interpolated.          *)
(* pageImages holds, per page, the length of pako.deflate(pageImages[i]).  *)

Chunk(kind, obj, chars, bytes, value, refs) ==
    [kind |-> kind, obj |-> obj, chars |-> chars, bytes |-> bytes,
     value |-> value, refs |-> refs]

Text(kind, obj, chars) == Chunk(kind, obj, chars, chars, -1, <<>>)

\* mutant: the offset advances by the string's length, not by its bytes
advance_ByChars(offset, chunk) == offset + chunk.chars

\* line 511: byteOffset += bytes.length
advance(offset, chunk) == offset + chunk.bytes

\* lines 508-512, on the writer state w = [chunks, byteOffset]
write(w, chunk) ==
    [chunks |-> Append(w.chunks, chunk), byteOffset |-> advance(w.byteOffset, chunk)]

\* lines 518-519: Math.round(pixels * 72 / 150); 12 * pixels / 25 is never
\* halfway between two integers
pdfPoints(pixels) == (24 * pixels + 25) \div 50

\* line 530: the length of pageRefs, the 'k 0 R' joined by ' '
RECURSIVE pageRefsLen(_)
pageRefsLen(n) ==
    IF n = 0 THEN 0
    ELSE pageRefsLen(n - 1) + (IF n > 1 THEN 1 ELSE 0) + Digits(3 * (n - 1) + 3) + 4

\* mutant: the kids are numbered as if a page took two objects
pageRefs_TwoPerPage(n) == [k \in 1..n |-> 2 * (k - 1) + 3]

\* line 530: pageImages.map((_, i) => `${(i * 3) + 3} 0 R`)
pageRefs(n) == [k \in 1..n |-> 3 * (k - 1) + 3]

\* line 522: 15 characters, four of them (U+00E2 U+00E3 U+00CF U+00D3)
\* encoded in two bytes each
headerChunk == Chunk("header", 0, 15, 19, -1, <<>>)

\* line 526
catalogChunk == Chunk("catalog", 1, 49, 49, -1, <<2>>)

\* line 531
pagesChunk(n) ==
    Chunk("pages", 2, 53 + pageRefsLen(n) + Digits(n), 53 + pageRefsLen(n) + Digits(n),
          n, pageRefs(n))

\* line 544
pageChunk(p, w, h) ==
    LET len == 133 + Digits(3 * p + 3) + Digits(pdfPoints(w)) + Digits(pdfPoints(h))
                   + Digits(3 * p + 4) + Digits(3 * p + 5)
    IN  Chunk("page", 3 * p + 3, len, len, -1, <<2, 3 * p + 4, 3 * p + 5>>)

\* lines 547-549
contentsChunk(p, w, h) ==
    LET contents == 25 + Digits(pdfPoints(w)) + Digits(pdfPoints(h))
        len      == 47 + Digits(3 * p + 4) + Digits(contents) + contents
    IN  Chunk("contents", 3 * p + 4, len, len, -1, <<>>)

\* line 553
imageChunk(p, w, h, compressedLen) ==
    LET len == 162 + Digits(3 * p + 5) + Digits(w) + Digits(h) + Digits(compressedLen)
    IN  Chunk("image", 3 * p + 5, len, len, -1, <<>>)

\* line 564
xrefEntryChunk(offset) ==
    LET len == Max(10, Digits(offset)) + 10
    IN  Chunk("xrefEntry", 0, len, len, offset, <<>>)

RECURSIVE writeEntries(_, _)
writeEntries(w, offsets) ==
    IF offsets = <<>> THEN w
    ELSE writeEntries(write(w, xrefEntryChunk(offsets[1])), Tail(offsets))

MaxPages == 2

CompressedSizes == { 8, 95, 12345 }

PageDims == { <<A5X_WIDTH, A5X_HEIGHT>>, <<A5X2_WIDTH, A5X2_HEIGHT>> }

InitPDF ==
    /\ \E n \in 0..MaxPages : pageImages \in [1..n -> CompressedSizes]
    /\ \E wh \in PageDims : width = wh[1] /\ height = wh[2]
    /\ chunks = <<>> /\ xrefOffsets = <<>> /\ byteOffset = 0 /\ xrefStart = 0
    /\ pageI = 0 /\ pdfPc = "header"
    /\ GateIdle /\ RenderIdle /\ ExtIdle
    /\ compressedData = <<>> /\ i = 0 /\ holder = <<>> /\ decompressed = <<>>
    /\ rlePc = "idle"

writer == [chunks |-> chunks, byteOffset |-> byteOffset]

pdfFrame == <<gateVars, renderVars, compressedData, width, height, i, holder,
              decompressed, rlePc, pageImages, extVars>>

\* line 522
PdfHeader ==
    /\ pdfPc = "header"
    /\ LET w == write(writer, headerChunk)
       IN  chunks' = w.chunks /\ byteOffset' = w.byteOffset
    /\ pdfPc' = "catalog"
    /\ UNCHANGED <<xrefOffsets, xrefStart, pageI, pdfFrame>>

\* lines 525-526
PdfCatalog ==
    /\ pdfPc = "catalog"
    /\ xrefOffsets' = Append(xrefOffsets, byteOffset)
    /\ LET w == write(writer, catalogChunk)
       IN  chunks' = w.chunks /\ byteOffset' = w.byteOffset
    /\ pdfPc' = "pages"
    /\ UNCHANGED <<xrefStart, pageI, pdfFrame>>

\* lines 529-531
PdfPages ==
    /\ pdfPc = "pages"
    /\ xrefOffsets' = Append(xrefOffsets, byteOffset)
    /\ LET w == write(writer, pagesChunk(Len(pageImages)))
       IN  chunks' = w.chunks /\ byteOffset' = w.byteOffset
    /\ pdfPc' = "page"
    /\ UNCHANGED <<xrefStart, pageI, pdfFrame>>

\* lines 534-556: one iteration of the page loop
PdfPage ==
    /\ pdfPc = "page"
    /\ pageI < Len(pageImages)
    /\ LET compressedLen == pageImages[pageI + 1]
           w1 == write(writer, pageChunk(pageI, width, height))
           w2 == write(w1, contentsChunk(pageI, width, height))
           w3 == write(w2, imageChunk(pageI, width, height, compressedLen))
           w4 == write(w3, Chunk("pixels", 0, compressedLen, compressedLen, -1, <<>>))
           w5 == write(w4, Text("endstream", 0, 18))
       IN  /\ xrefOffsets' = xrefOffsets \o <<byteOffset, w1.byteOffset, w2.byteOffset>>
           /\ chunks' = w5.chunks /\ byteOffset' = w5.byteOffset
    /\ pageI' = pageI + 1
    /\ UNCHANGED <<xrefStart, pdfPc, pdfFrame>>

\* lines 559-565
PdfXref ==
    /\ pdfPc = "page"
    /\ ~(pageI < Len(pageImages))
    /\ xrefStart' = byteOffset
    /\ LET w1 == write(writer, Text("xref", 0, 5))
           w2 == write(w1, Chunk("xrefCount", 0, 3 + Digits(Len(xrefOffsets) + 1),
                                 3 + Digits(Len(xrefOffsets) + 1),
                                 Len(xrefOffsets) + 1, <<>>))
           w3 == write(w2, Text("xrefFree", 0, 20))
           w4 == writeEntries(w3, xrefOffsets)
       IN  chunks' = w4.chunks /\ byteOffset' = w4.byteOffset
    /\ pdfPc' = "trailer"
    /\ UNCHANGED <<xrefOffsets, pageI, pdfFrame>>

\* lines 568-572; lines 575-583 concatenate the chunks in order
PdfTrailer ==
    /\ pdfPc = "trailer"
    /\ LET w1 == write(writer, Text("trailer", 0, 8))
           w2 == write(w1, Chunk("size", 0, 25 + Digits(Len(xrefOffsets) + 1),
                                 25 + Digits(Len(xrefOffsets) + 1),
                                 Len(xrefOffsets) + 1, <<1>>))
           w3 == write(w2, Text("startxref", 0, 10))
           w4 == write(w3, Chunk("startxrefValue", 0, 1 + Digits(xrefStart),
                                 1 + Digits(xrefStart), xrefStart, <<>>))
           w5 == write(w4, Text("eof", 0, 6))
       IN  chunks' = w5.chunks /\ byteOffset' = w5.byteOffset
    /\ pdfPc' = "done"
    /\ UNCHANGED <<xrefOffsets, xrefStart, pageI, pdfFrame>>

NextPDF == PdfHeader \/ PdfCatalog \/ PdfPages \/ PdfPage \/ PdfXref \/ PdfTrailer

SpecPDF == InitPDF /\ [][NextPDF]_vars

---------------------------------------------------------------------------
(* Metadata records (parseMetadataBlock lines 169-178).  A Map is kept as  *)
(* the sequence of its [key, value] entries in insertion order; keys and   *)
(* values are strings (sequences of code units).                           *)

\* what Map.get returns for a missing key
Undefined == << 0 - 1 >>

\* index (1-based) of the first ch in s at or after from, 0 if there is none
RECURSIVE IndexFrom(_, _, _)
IndexFrom(s, ch, from) ==
    IF from > Len(s) THEN 0
    ELSE IF s[from] = ch THEN from
    ELSE IndexFrom(s, ch, from + 1)

mapHas(m, key) == \E k \in 1..Len(m) : m[k].key = key

\* Map.prototype.get
mapGet(m, key) ==
    IF mapHas(m, key)
      THEN m[CHOOSE k \in 1..Len(m) : m[k].key = key].value
      ELSE Undefined

\* Map.prototype.set: an existing key keeps its place and takes the new value
mapSet(m, key, value) ==
    IF mapHas(m, key)
      THEN [k \in 1..Len(m) |-> IF m[k].key = key
                                  THEN [key |-> key, value |-> value] ELSE m[k]]
      ELSE Append(m, [key |-> key, value |-> value])

(* The loop `while ((match = regex.exec(content)) !== null)` with          *)
(* regex = /<([^:]+?):([^>]*?)>/g, from index `from` of the text: a match  *)
(* starts at a '<' whose next character is no ':', its key runs to the     *)
(* first ':' and its value from there to the first '>'.                    *)
RECURSIVE matchAll(_, _, _)
matchAll(text, from, m) ==
    LET lt    == IndexFrom(text, 60, from)
        colon == IndexFrom(text, 58, lt + 1)
        gt    == IndexFrom(text, 62, colon + 1)
    IN  IF lt = 0 THEN m
        ELSE IF colon = 0 \/ colon = lt + 1 \/ gt = 0
          THEN matchAll(text, lt + 1, m)
        ELSE matchAll(text, gt + 1,
                      mapSet(m, SubSeq(text, lt + 1, colon - 1),
                                SubSeq(text, colon + 1, gt - 1)))

(* parseMetadataBlock (lines 149-179) with the record it returns: record   *)
(* is the Map built from the text of the block.                            *)
metadataRecord(data, p, address) ==
    LET b == parseMetadataBlock(data, p, address)
    IN  [ok |-> b.ok, warned |-> b.warned, pos |-> b.pos,
         record |-> IF b.ok THEN matchAll(b.content, 1, <<>>) ELSE <<>>]

\* the characters parseInt skips before the number
WhiteSpace == { 9, 10, 11, 12, 13, 32, 160, 5760, 8232, 8233, 8239, 8287, 12288, 65279 }
                \cup (8192..8202)

IsDigit(c) == c \in 48..57

RECURSIVE skipWhiteSpace(_)
skipWhiteSpace(s) ==
    IF s # <<>> /\ s[1] \in WhiteSpace THEN skipWhiteSpace(Tail(s)) ELSE s

\* value of the leading decimal digits of s, continuing from acc
RECURSIVE digitsValue(_, _)
digitsValue(s, acc) ==
    IF s = <<>> \/ ~IsDigit(s[1]) THEN acc
    ELSE digitsValue(Tail(s), 10 * acc + (s[1] - 48))

\* parseInt(s, 10) of a string, NaN when no digit follows the optional sign
parseInt(s) ==
    LET t      == skipWhiteSpace(s)
        signed == t # <<>> /\ t[1] \in {43, 45}
        body   == IF signed THEN Tail(t) ELSE t
    IN  IF body = <<>> \/ ~IsDigit(body[1]) THEN NaN
        ELSE IF signed /\ t[1] = 45 THEN 0 - digitsValue(body, 0)
        ELSE digitsValue(body, 0)

\* n.toString() for an integer n >= 0 (used to build input buffers)
RECURSIVE NumberToString(_)
NumberToString(n) ==
    IF n < 10 THEN <<48 + n>> ELSE NumberToString(n \div 10) \o <<48 + (n % 10)>>

\* '<key:value>' (used to build input buffers)
Tag(key, value) == <<60>> \o key \o <<58>> \o value \o <<62>>

---------------------------------------------------------------------------
(* A BinaryReader driven one operation at a time, with the arguments the   *)
(* callers can produce: offsets read from the file, and the numbers        *)
(* parseInt returns for the text of a record (NaN included, see            *)
(* parseNotebook line 251 and renderPage line 411).                        *)

(* The buffer of the reader:                                               *)
(*   0  two bytes that are no block                                        *)
(*   2  a block of 5 bytes, '<a:b>'                                        *)
(*  11  a block whose length prefix is 0                                   *)
(*  15  a block whose length prefix, 100, exceeds the buffer               *)
(*  19  two bytes                                                          *)
(* Every byte is below 128, so that readU32LE stays below 2^31 at every    *)
(* cursor.                                                                 *)
ReaderBuffer ==
    <<110, 111>>
    \o U32LE(5) \o Tag(<<97>>, <<98>>)
    \o U32LE(0)
    \o U32LE(100)
    \o <<1, 2>>

SeekArgs == { 0 - 1, 0, 2, 11, Len(ReaderBuffer) - 4, Len(ReaderBuffer),
              Len(ReaderBuffer) + 1, NaN }

SeekEndArgs == { 0 - 4, 0, 1, 0 - Len(ReaderBuffer), 0 - Len(ReaderBuffer) - 1, NaN }

ReadLengths == { 0 - 1, 0, 2, 5, 200, NaN }

BlockAddrs == { 0, 0 - 7, 2, 11, 15, Len(ReaderBuffer) - 4, Len(ReaderBuffer) - 3,
                5000, NaN }

InitReader ==
    /\ noteData = ReaderBuffer /\ pos = 0
    /\ entry = "none" /\ convPc = "idle" /\ convError = ""
    /\ blocksResolved = 0 /\ footerMap = <<>>
    /\ lastOp = <<>>
    /\ RleIdle /\ RenderIdle /\ PdfIdle /\ ConvIdle /\ ConcIdle /\ DlIdle /\ AppIdle

readerFrame == <<noteData, entry, convPc, convError, blocksResolved, footerMap,
                 rleVars, renderVars, pdfVars, convVars, concVars, dlVars, appVars>>

\* the record kept of one operation: the cursor before it, whether it
\* returned (ok) or threw, and the value returned
Op(name, arg, ok, val) ==
    [op |-> name, arg |-> arg, before |-> pos, ok |-> ok, val |-> val]

\* reader.seek(p): the cursor is assigned only when the test passes
ReaderSeek ==
    /\ \E p \in SeekArgs :
         LET r == seek(noteData, p)
         IN  /\ pos' = IF r.ok THEN r.pos ELSE pos
             /\ lastOp' = Op("seek", p, r.ok, <<>>)
    /\ UNCHANGED readerFrame

ReaderSeekEnd ==
    /\ \E offset \in SeekEndArgs :
         LET r == seekEnd(noteData, offset)
         IN  /\ pos' = IF r.ok THEN r.pos ELSE pos
             /\ lastOp' = Op("seekEnd", offset, r.ok, <<>>)
    /\ UNCHANGED readerFrame

ReaderReadU32LE ==
    /\ LET r == readU32LE(noteData, pos)
       IN  /\ pos' = r.pos
           /\ lastOp' = Op("readU32LE", 4, r.ok, IF r.ok THEN <<r.val>> ELSE <<>>)
    /\ UNCHANGED readerFrame

ReaderReadBytes ==
    /\ \E length \in ReadLengths :
         LET r == readBytes(noteData, pos, length)
         IN  /\ pos' = r.pos
             /\ lastOp' = Op("readBytes", length, r.ok, r.val)
    /\ UNCHANGED readerFrame

\* parseMetadataBlock(reader, address)
ReaderParseBlock ==
    /\ \E address \in BlockAddrs :
         LET r == metadataRecord(noteData, pos, address)
         IN  /\ pos' = r.pos
             /\ lastOp' = Op("parseMetadataBlock", address, r.ok, r.record)
    /\ UNCHANGED readerFrame

NextReader ==
    ReaderSeek \/ ReaderSeekEnd \/ ReaderReadU32LE \/ ReaderReadBytes
    \/ ReaderParseBlock

SpecReader == InitReader /\ [][NextReader]_vars

---------------------------------------------------------------------------
(* parseNotebook (lines 192-265).  The keys and values of the records, as  *)
(* code units.                                                             *)

\* 'PAGE'
K_PAGE == <<80,65,71,69>>

\* 'LAYERSEQ'
K_LAYERSEQ == <<76,65,89,69,82,83,69,81>>

\* 'BGLAYER'
K_BGLAYER == <<66,71,76,65,89,69,82>>

\* 'MAINLAYER'
K_MAINLAYER == <<77,65,73,78,76,65,89,69,82>>

\* 'LAYER1'
K_LAYER1 == <<76,65,89,69,82,49>>

\* 'LAYER2'
K_LAYER2 == <<76,65,89,69,82,50>>

\* 'LAYER3'
K_LAYER3 == <<76,65,89,69,82,51>>

\* 'LAYERPROTOCOL'
K_LAYERPROTOCOL == <<76,65,89,69,82,80,82,79,84,79,67,79,76>>

\* 'LAYERBITMAP'
K_LAYERBITMAP == <<76,65,89,69,82,66,73,84,77,65,80>>

\* 'FILE_FEATURE'
K_FILE_FEATURE == <<70,73,76,69,95,70,69,65,84,85,82,69>>

\* 'APPLY_EQUIPMENT'
K_APPLY_EQUIPMENT == <<65,80,80,76,89,95,69,81,85,73,80,77,69,78,84>>

\* 'N5'
V_N5 == <<78,53>>

\* 'RATTA_RLE'
V_RATTA_RLE == <<82,65,84,84,65,95,82,76,69>>

\* 'PNG'
V_PNG == <<80,78,71>>

\* the default layer order of line 246
DefaultLayerOrder == << K_BGLAYER, K_MAINLAYER, K_LAYER1, K_LAYER2, K_LAYER3 >>

\* a value that `if (value)` and `value || other` take: a non-empty string
Truthy(v) == v # Undefined /\ v # <<>>

\* String.prototype.split(',') of a non-empty string
RECURSIVE Split(_)
Split(s) ==
    LET comma == IndexFrom(s, 44, 1)
    IN  IF comma = 0 THEN << s >>
        ELSE << SubSeq(s, 1, comma - 1) >> \o Split(SubSeq(s, comma + 1, Len(s)))

\* detectDeviceDimensions (lines 192-208): the dimensions and the cursor
detectDeviceDimensions(data, p, footer) ==
    LET fileFeature == mapGet(footer, K_FILE_FEATURE)
        headerAddr  == parseInt(fileFeature)
        header      == metadataRecord(data, p, headerAddr)
        a5x         == [ok |-> TRUE, pos |-> p, width |-> A5X_WIDTH, height |-> A5X_HEIGHT]
    IN  IF ~Truthy(fileFeature) \/ headerAddr = NaN THEN a5x
        ELSE IF ~header.ok THEN [a5x EXCEPT !.ok = FALSE, !.pos = header.pos]
        ELSE IF mapGet(header.record, K_APPLY_EQUIPMENT) = V_N5
          THEN [ok |-> TRUE, pos |-> header.pos,
                width |-> A5X2_WIDTH, height |-> A5X2_HEIGHT]
        ELSE [a5x EXCEPT !.pos = header.pos]

\* lines 225-235: the [pageNum, addr] pairs of the footer, in Map order
RECURSIVE collectPageEntries(_)
collectPageEntries(footer) ==
    IF footer = <<>> THEN <<>>
    ELSE LET key     == footer[1].key
             pageNum == parseInt(SubSeq(key, 5, Len(key)))
             addr    == parseInt(footer[1].value)
         IN  (IF StartsWith(key, K_PAGE) /\ pageNum # NaN /\ addr # NaN
                THEN << [pageNum |-> pageNum, addr |-> addr] >> ELSE <<>>)
             \o collectPageEntries(Tail(footer))

\* the comparator of line 236: (a, b) => a[0] - b[0]
comparePages(a, b) == a.pageNum - b.pageNum

\* place e in the sorted list after every entry that does not compare
\* greater (Array.prototype.sort is stable)
RECURSIVE insertSorted(_, _)
insertSorted(sorted, e) ==
    IF sorted = <<>> THEN << e >>
    ELSE IF comparePages(sorted[1], e) > 0 THEN << e >> \o sorted
    ELSE << sorted[1] >> \o insertSorted(Tail(sorted), e)

\* mutant: the entries stay in declaration order
sortPages_DeclarationOrder(entries) == entries

\* pageEntries.sort(...) (line 236)
RECURSIVE sortPages(_)
sortPages(entries) ==
    IF entries = <<>> THEN <<>>
    ELSE insertSorted(sortPages(SubSeq(entries, 1, Len(entries) - 1)),
                      entries[Len(entries)])

\* mutant: the layer-order key is ignored
layerOrderOf_AlwaysDefault(pageMap) == DefaultLayerOrder

\* lines 243-246
layerOrderOf(pageMap) ==
    LET layerSeq == mapGet(pageMap, K_LAYERSEQ)
    IN  IF Truthy(layerSeq) THEN Split(layerSeq) ELSE DefaultLayerOrder

\* lines 254-258: the Layer built from a layer record
layerOf(layerKey, layerData) ==
    LET protocol == mapGet(layerData, K_LAYERPROTOCOL)
        bitmap   == mapGet(layerData, K_LAYERBITMAP)
    IN  [key |-> layerKey,
         protocol |-> IF Truthy(protocol) THEN protocol ELSE <<>>,
         bitmapAddress |-> parseInt(IF Truthy(bitmap) THEN bitmap ELSE <<48>>)]

\* the value of F at v, with v evaluated once
Bind(v, F(_)) == CHOOSE r \in { F(x) : x \in {v} } : TRUE

\* lines 248-260: the loop over layerOrder with the cursor at p
\* (ok = FALSE once parseMetadataBlock has thrown)
RECURSIVE resolveLayers(_, _, _, _)
resolveLayers(data, p, pageMap, order) ==
    IF order = <<>> THEN [ok |-> TRUE, pos |-> p, layers |-> <<>>]
    ELSE IF ~Truthy(mapGet(pageMap, order[1]))
      THEN resolveLayers(data, p, pageMap, Tail(order))
    ELSE Bind(metadataRecord(data, p, parseInt(mapGet(pageMap, order[1]))),
              LAMBDA layerData :
                IF ~layerData.ok
                  THEN [ok |-> FALSE, pos |-> layerData.pos, layers |-> <<>>]
                  ELSE Bind(resolveLayers(data, layerData.pos, pageMap, Tail(order)),
                            LAMBDA rest :
                              [rest EXCEPT !.layers =
                                 << layerOf(order[1], layerData.record) >> \o @]))

\* lines 238-262: the loop over pageEntries with the cursor at p
RECURSIVE resolvePages(_, _, _)
resolvePages(data, p, entries) ==
    IF entries = <<>> THEN [ok |-> TRUE, pos |-> p, pages |-> <<>>]
    ELSE Bind(metadataRecord(data, p, entries[1].addr),
              LAMBDA pageMap :
                IF ~pageMap.ok
                  THEN [ok |-> FALSE, pos |-> pageMap.pos, pages |-> <<>>]
                  ELSE Bind(resolveLayers(data, pageMap.pos, pageMap.record,
                                          layerOrderOf(pageMap.record)),
                            LAMBDA ls :
                              IF ~ls.ok
                                THEN [ok |-> FALSE, pos |-> ls.pos, pages |-> <<>>]
                                ELSE Bind(resolvePages(data, ls.pos, Tail(entries)),
                                          LAMBDA rest :
                                            [rest EXCEPT !.pages =
                                               << [addr |-> entries[1].addr,
                                                   layers |-> ls.layers] >> \o @])))

\* what parseNotebook leaves when a reader operation throws at cursor p
parseFailed(p) ==
    [ok |-> FALSE, pos |-> p, signature |-> <<>>, pages |-> <<>>,
     width |-> 0, height |-> 0, pageEntries |-> <<>>]

\* parseNotebook from line 222 on, with the footer record resolved
parseFooterRecord(data, signature, footer) ==
    Bind(detectDeviceDimensions(data, footer.pos, footer.record),
         LAMBDA dims :
           IF ~dims.ok THEN parseFailed(dims.pos)
           ELSE Bind(sortPages(collectPageEntries(footer.record)),
                     LAMBDA entries :
                       Bind(resolvePages(data, dims.pos, entries),
                            LAMBDA ps :
                              IF ~ps.ok THEN parseFailed(ps.pos)
                              ELSE [ok |-> TRUE, pos |-> ps.pos, signature |-> signature,
                                    pages |-> ps.pages, width |-> dims.width,
                                    height |-> dims.height, pageEntries |-> entries])))

(* parseNotebook (lines 213-265): ok = FALSE when a reader operation       *)
(* throws; otherwise the Notebook, with the sorted page entries and the    *)
(* cursor the reader is left at.                                           *)
parseNotebook(data) ==
    LET sig  == getSignature(data)
        e    == seekEnd(data, 0 - 4)
        addr == readU32LE(data, e.pos)
    IN  IF ~sig.ok THEN parseFailed(sig.pos)
        ELSE IF ~e.ok THEN parseFailed(sig.pos)
        ELSE IF ~addr.ok THEN parseFailed(e.pos)
        ELSE Bind(metadataRecord(data, addr.pos, addr.val),
                  LAMBDA footer :
                    IF ~footer.ok THEN parseFailed(footer.pos)
                    ELSE parseFooterRecord(data, sig.val, footer))

---------------------------------------------------------------------------
(* renderPage as convertNoteToPdf sees it (lines 393-479): whether it      *)
(* throws, the cursor it leaves, the number of layers it read from the     *)
(* buffer and the layers whose bytes reached a decoder.  The pixels it     *)
(* composites are the subject of SpecRender.                               *)
RECURSIVE renderLayers(_, _, _)
renderLayers(data, p, ls) ==
    IF ls = <<>> THEN [ok |-> TRUE, pos |-> p, reads |-> 0, decoded |-> <<>>]
    ELSE IF ls[1].bitmapAddress = 0 THEN renderLayers(data, p, Tail(ls))
    ELSE Bind(readBitmap(data, ls[1].bitmapAddress),
              LAMBDA rb :
                IF ~rb.ok
                  THEN [ok |-> FALSE, pos |-> rb.pos, reads |-> 1, decoded |-> <<>>]
                  ELSE Bind(renderLayers(data, rb.pos, Tail(ls)),
                            LAMBDA rest :
                              [rest EXCEPT
                                 !.reads = @ + 1,
                                 !.decoded =
                                    IF ls[1].protocol \in {V_RATTA_RLE, V_PNG}
                                      THEN << [key |-> ls[1].key,
                                               protocol |-> ls[1].protocol,
                                               compressedData |-> rb.val] >> \o @
                                      ELSE @]))

\* mutant: an error of a layer is swallowed
renderPage_NeverThrows(data, p, page) ==
    [renderLayers(data, p, page.layers) EXCEPT !.ok = TRUE]

renderPage(data, p, page) == renderLayers(data, p, page.layers)

---------------------------------------------------------------------------
(* Input documents of the conversion.  A document is                       *)
(*    0  'noteSN_FILE_VER_20230015'                                        *)
(*   24  a bitmap block of 4 bytes: (0x61, 0) (0x62, 0)                    *)
(*   32  a bitmap block of 2 bytes: (0x9d, 1)                              *)
(*   38  a bitmap block whose length prefix exceeds the document           *)
(*   44  the layer records, then the header record, two page records and   *)
(*       the footer record, each a block; then the footer address.         *)

DocHead == <<110,111,116,101,83,78,95,70,73,76,69,95,86,69,82,95,50,48,50,51,48,48,49,53>>

DocBitmaps ==
    U32LE(4) \o <<97, 0, 98, 0>> \o U32LE(2) \o <<157, 1>> \o U32LE(100000) \o <<1, 2>>

\* a block: the length prefix and the text
Block(text) == U32LE(Len(text)) \o text

LayerRecords ==
    << Tag(K_LAYERPROTOCOL, V_RATTA_RLE) \o Tag(K_LAYERBITMAP, NumberToString(24)),
       Tag(K_LAYERPROTOCOL, V_PNG) \o Tag(K_LAYERBITMAP, NumberToString(32)),
       Tag(K_LAYERPROTOCOL, V_RATTA_RLE),                                \* no bitmap key
       Tag(K_LAYERPROTOCOL, V_RATTA_RLE) \o Tag(K_LAYERBITMAP, <<97,98,99>>),   \* 'abc'
       Tag(K_LAYERPROTOCOL, V_RATTA_RLE) \o Tag(K_LAYERBITMAP, NumberToString(38)),
       Tag(K_LAYERPROTOCOL, V_RATTA_RLE) \o Tag(K_LAYERBITMAP, NumberToString(99999)),
       Tag(K_LAYERPROTOCOL, <<83,86,71>>) \o Tag(K_LAYERBITMAP, NumberToString(24)),  \* 'SVG'
       Tag(K_LAYERBITMAP, NumberToString(24)),                           \* no protocol key
       Tag(K_LAYERPROTOCOL, V_RATTA_RLE) \o Tag(K_LAYERBITMAP, <<>>) >>  \* empty value

RECURSIVE Blocks(_)
Blocks(texts) == IF texts = <<>> THEN <<>> ELSE Block(texts[1]) \o Blocks(Tail(texts))

\* address of the k-th layer record
LayerAddr(k) == Len(DocHead) + Len(DocBitmaps) + Len(Blocks(SubSeq(LayerRecords, 1, k - 1)))

HeaderAddr == LayerAddr(Len(LayerRecords) + 1)

DocBase ==
    DocHead \o DocBitmaps \o Blocks(LayerRecords) \o Block(Tag(K_APPLY_EQUIPMENT, V_N5))

\* the values a page record gives a layer key: the address of a layer
\* record, 'abc', '', '0', '99999', '-5'
LayerValues ==
    { NumberToString(LayerAddr(k)) : k \in 1..Len(LayerRecords) }
    \cup { <<97,98,99>>, <<>>, <<48>>, NumberToString(99999), <<45,53>> }

\* 'MAINLAYER,BGLAYER' and 'LAYER9,MAINLAYER,MAINLAYER'
SeqMainBg == K_MAINLAYER \o <<44>> \o K_BGLAYER

SeqDup == <<76,65,89,69,82,57>> \o <<44>> \o K_MAINLAYER \o <<44>> \o K_MAINLAYER

PageTemplates == 1..5

PageText(t, x) ==
    CASE t = 1 -> Tag(K_MAINLAYER, x) \o Tag(K_BGLAYER, NumberToString(LayerAddr(1)))
      [] t = 2 -> Tag(K_LAYERSEQ, SeqMainBg)
                  \o Tag(K_BGLAYER, NumberToString(LayerAddr(1))) \o Tag(K_MAINLAYER, x)
      [] t = 3 -> Tag(K_LAYERSEQ, <<>>) \o Tag(K_MAINLAYER, x)
      [] t = 4 -> Tag(K_LAYERSEQ, SeqDup) \o Tag(K_MAINLAYER, x)
                  \o Tag(K_LAYER1, NumberToString(LayerAddr(2)))
      [] t = 5 -> Tag(K_LAYER3, NumberToString(LayerAddr(2))) \o Tag(K_LAYER1, x)

\* every value under the default order, three of them under the others
FirstPages ==
    { PageText(1, x) : x \in LayerValues }
    \cup { PageText(t, x) : t \in PageTemplates,
                            x \in { NumberToString(LayerAddr(1)), <<>>, <<97,98,99>> } }

SecondPages ==
    { PageText(2, NumberToString(LayerAddr(2))),
      PageText(5, NumberToString(LayerAddr(5))) }

PageKey(suffix) == K_PAGE \o suffix

FooterKinds == 1..10

\* the footer record, given the addresses of the two page records
FooterText(f, p1, p2) ==
    LET a1 == NumberToString(p1)
        a2 == NumberToString(p2)
    IN  CASE f = 1 -> Tag(PageKey(<<49>>), a1) \o Tag(PageKey(<<50>>), a2)
          [] f = 2 -> Tag(PageKey(<<50>>), a1) \o Tag(PageKey(<<49>>), a2)
          [] f = 3 -> Tag(PageKey(<<49,48>>), a1) \o Tag(PageKey(<<57>>), a2)
          [] f = 4 -> Tag(K_FILE_FEATURE, NumberToString(HeaderAddr))
                      \o Tag(PageKey(<<49>>), a1)
          [] f = 5 -> Tag(PageKey(<<51>>), <<97,98,99>>) \o Tag(PageKey(<<88>>), a2)
                      \o Tag(PageKey(<<50>>), a1) \o Tag(PageKey(<<>>), a2)
          [] f = 6 -> Tag(PageKey(<<50>>), a2) \o Tag(PageKey(<<49>>), a1)
                      \o Tag(PageKey(<<50>>), a1)
          [] f = 7 -> Tag(PageKey(<<49>>), a1) \o Tag(PageKey(<<48,49>>), a2)
          [] f = 8 -> Tag(K_FILE_FEATURE, <<97,98,99>>)
          [] OTHER -> Tag(PageKey(<<49>>), a1) \o Tag(PageKey(<<50>>), a2)

MkDoc(f, page1, page2) ==
    LET p1     == Len(DocBase)
        p2     == p1 + Len(Block(page1))
        footer == p2 + Len(Block(page2))
        stored == CASE f = 9 -> 5000000        \* beyond the end of the document
                    [] f = 10 -> 0
                    [] OTHER -> footer
    IN  DocBase \o Block(page1) \o Block(page2) \o Block(FooterText(f, p1, p2))
        \o U32LE(stored)

Documents == { MkDoc(f, a, b) : f \in FooterKinds, a \in FirstPages, b \in SecondPages }

---------------------------------------------------------------------------
(* convertNoteToPdf (lines 591-621) and getNoteInfo (lines 626-644), from  *)
(* the buffer to the value returned.  buildPDF runs as the steps of        *)
(* SpecPDF.                                                                *)

InitConvert ==
    /\ noteData \in Documents
    /\ entry \in {"convertNoteToPdf", "getNoteInfo"}
    /\ pos = 0 /\ convPc = "start" /\ convError = ""
    /\ blocksResolved = 0 /\ footerMap = <<>>
    /\ ConvIdle /\ ReaderIdle /\ ConcIdle /\ DlIdle /\ AppIdle
    /\ RleIdle /\ RenderIdle /\ PdfIdle

convFrame == <<noteData, entry, blocksResolved, footerMap, compressedData, i, holder,
               decompressed, rlePc, renderVars, lastOp, concVars, dlVars, appVars>>

\* const notebook = parseNotebook(reader)
ParseNotebook ==
    /\ convPc = "validated"
    /\ \E nb \in { parseNotebook(noteData) } :
           /\ pos' = nb.pos
           /\ convPc' = IF nb.ok THEN "parsed" ELSE "failed"
           /\ convError' = IF nb.ok THEN convError ELSE "outOfBounds"
           /\ notebook' = IF nb.ok
                            THEN [signature |-> nb.signature, pages |-> nb.pages,
                                  width |-> nb.width, height |-> nb.height]
                            ELSE notebook
           /\ pageEntries' = nb.pageEntries
    /\ UNCHANGED <<pageIdx, renderedPages, width, height, pdfVars, convFrame>>

\* getNoteInfo, lines 638-643
InfoReturn ==
    /\ convPc = "parsed" /\ entry = "getNoteInfo"
    /\ convPc' = "returned"
    /\ UNCHANGED <<pos, convError, convVars, width, height, pdfVars, convFrame>>

\* one iteration of the loop of lines 605-616
ConvRenderPage ==
    /\ convPc = "parsed" /\ entry = "convertNoteToPdf"
    /\ pageIdx < Len(notebook.pages)
    /\ \E page \in { notebook.pages[pageIdx + 1] } :
       \E r \in { renderPage(noteData, pos, page) } :
           /\ pos' = r.pos
           /\ IF r.ok
                THEN /\ renderedPages' = Append(renderedPages,
                            [addr |-> page.addr, reads |-> r.reads, decoded |-> r.decoded])
                     /\ pageIdx' = pageIdx + 1
                     /\ UNCHANGED <<convPc, convError>>
                ELSE /\ convPc' = "failed"
                     /\ convError' = "renderFailed"
                     /\ UNCHANGED <<renderedPages, pageIdx>>
    /\ UNCHANGED <<pageEntries, notebook, width, height, pdfVars, convFrame>>

\* line 618: buildPDF(pageImages, notebook.width, notebook.height) is
\* entered; a page image deflates to one of the sizes of CompressedSizes
ConvBuildPDF ==
    /\ convPc = "parsed" /\ entry = "convertNoteToPdf"
    /\ pageIdx = Len(notebook.pages)
    /\ convPc' = "building"
    /\ pageImages' \in [1..Len(renderedPages) -> CompressedSizes]
    /\ width' = notebook.width /\ height' = notebook.height
    /\ pdfPc' = "header"
    /\ UNCHANGED <<pos, convError, convVars, chunks, xrefOffsets, byteOffset,
                   xrefStart, pageI, convFrame>>

\* lines 619-620: return pdfBytes.buffer
ConvReturn ==
    /\ convPc = "building" /\ pdfPc = "done"
    /\ convPc' = "returned"
    /\ UNCHANGED <<pos, convError, convVars, width, height, pdfVars, convFrame>>

NextConvert ==
    Validate \/ ParseNotebook \/ InfoReturn \/ ConvRenderPage \/ ConvBuildPDF
    \/ PdfHeader \/ PdfCatalog \/ PdfPages \/ PdfPage \/ PdfXref \/ PdfTrailer
    \/ ConvReturn

SpecConvert == InitConvert /\ [][NextConvert]_vars

---------------------------------------------------------------------------
(* Two renderPage calls (lines 393-479) started on the same BinaryReader   *)
(* and running together: each call has its own page, canvas and locals,    *)
(* the buffer and the reader's cursor are shared.  A call runs without     *)
(* interruption from one `await decodePNG(...)` to the next, so the calls  *)
(* interleave at the awaits only; the steps below are no longer than that. *)

MaxTaskLayers == 2

Tasks == 1..2

TaskLayerSet ==
    { [protocol |-> "PNG", bitmapAddress |-> 4],
      [protocol |-> "PNG", bitmapAddress |-> 12],
      [protocol |-> "RATTA_RLE", bitmapAddress |-> 12],
      [protocol |-> "RATTA_RLE", bitmapAddress |-> 18] }

TaskLayerLists == UNION { [1..n -> TaskLayerSet] : n \in 0..MaxTaskLayers }

\* the compressed bytes of the blocks a PNG layer can point at
PngInputs == { readBitmap(RenderBuffer, a).val : a \in {4, 12} }

\* what decodePNG resolves to for given bytes: null (<<>>) or a raster
TaskPngResults(n) == { <<>>, [k \in 1..n |-> <<0, 0, 0, 128>>] }

\* the locals of a renderPage call at its start
newTask(ls, w, h) ==
    [layers |-> ls, layerIdx |-> 0, canvas |-> whiteCanvas(w, h),
     compressedData |-> <<>>, pc |-> "loop", reads |-> <<>>]

InitConc ==
    /\ noteData = RenderBuffer /\ pos = 0
    /\ entry = "convertNoteToPdf" /\ convPc = "render" /\ convError = ""
    /\ blocksResolved = 0 /\ footerMap = <<>>
    /\ width = RenderWidth /\ height = RenderHeight
    /\ compressedData = <<>> /\ i = 0 /\ holder = <<>> /\ decompressed = <<>>
    /\ rlePc = "idle"
    /\ \E l1 \in TaskLayerLists, l2 \in TaskLayerLists :
         tasks = [t \in Tasks |->
                    newTask(IF t = 1 THEN l1 ELSE l2, RenderWidth, RenderHeight)]
    /\ pngOf \in [PngInputs -> TaskPngResults(RenderWidth * RenderHeight)]
    /\ RenderIdle /\ PdfIdle /\ ConvIdle /\ ReaderIdle /\ DlIdle /\ AppIdle

concFrame == <<noteData, entry, convPc, convError, blocksResolved, footerMap,
               rleVars, renderVars, pdfVars, convVars, lastOp, dlVars, appVars, pngOf>>

\* mutant: every call draws on the canvas of the first
canvasOf_Shared(ts, t) == ts[1].canvas

\* the canvas a call composites onto: its own
canvasOf(ts, t) == ts[t].canvas

\* one iteration of the layer loop (lines 408-443, 472-476), up to the
\* await of a PNG layer
TaskLayer(t) ==
    /\ tasks[t].pc = "loop"
    /\ tasks[t].layerIdx < Len(tasks[t].layers)
    /\ \E l \in { tasks[t].layers[tasks[t].layerIdx + 1] } :
       \E r \in { readBitmap(noteData, l.bitmapAddress) } :
         IF l.bitmapAddress = 0
           THEN /\ tasks' = [tasks EXCEPT ![t].layerIdx = @ + 1]
                /\ UNCHANGED pos
         ELSE IF ~r.ok
           THEN /\ tasks' = [tasks EXCEPT ![t].pc = "error"]
                /\ pos' = r.pos
         ELSE
           /\ pos' = r.pos
           /\ tasks' =
                [tasks EXCEPT
                   ![t].reads = Append(@, [address |-> l.bitmapAddress, bytes |-> r.val]),
                   ![t].compressedData = r.val,
                   ![t].canvas =
                      IF l.protocol = "RATTA_RLE"
                        THEN compositeRLE(canvasOf(tasks, t),
                                          Expand(decodeRLE(r.val, width, height)))
                        ELSE @,
                   ![t].pc = IF l.protocol = "PNG" THEN "await" ELSE @,
                   ![t].layerIdx = IF l.protocol = "PNG" THEN @ ELSE @ + 1]
    /\ UNCHANGED concFrame

\* lines 443-471, from the await on
TaskPngDone(t) ==
    /\ tasks[t].pc = "await"
    /\ tasks' = [tasks EXCEPT
                   ![t].canvas = afterPNG(canvasOf(tasks, t), pngOf[tasks[t].compressedData]),
                   ![t].layerIdx = @ + 1,
                   ![t].pc = "loop"]
    /\ UNCHANGED <<pos, concFrame>>

\* line 478
TaskReturn(t) ==
    /\ tasks[t].pc = "loop"
    /\ tasks[t].layerIdx = Len(tasks[t].layers)
    /\ tasks' = [tasks EXCEPT ![t].pc = "done"]
    /\ UNCHANGED <<pos, concFrame>>

NextConc == \E t \in Tasks : TaskLayer(t) \/ TaskPngDone(t) \/ TaskReturn(t)

SpecConc == InitConc /\ [][NextConc]_vars

(* renderPage run alone from start to end, as a function of the layers:    *)
(* ok = FALSE when it throws, otherwise the canvas it returns.             *)
RECURSIVE renderSequential(_, _, _)
renderSequential(data, ls, cv) ==
    IF ls = <<>> THEN [ok |-> TRUE, canvas |-> cv]
    ELSE IF ls[1].bitmapAddress = 0 THEN renderSequential(data, Tail(ls), cv)
    ELSE Bind(readBitmap(data, ls[1].bitmapAddress),
              LAMBDA rb :
                IF ~rb.ok THEN [ok |-> FALSE, canvas |-> cv]
                ELSE Bind(CASE ls[1].protocol = "RATTA_RLE" ->
                                 compositeRLE(cv, Expand(decodeRLE(rb.val, width, height)))
                            [] ls[1].protocol = "PNG" -> afterPNG(cv, pngOf[rb.val])
                            [] OTHER -> cv,
                          LAMBDA next : renderSequential(data, Tail(ls), next)))

---------------------------------------------------------------------------
(* The download phase of NoteImporter.importNotesWithProgressBatch         *)
(* (src/src/settings.ts lines 265-314) and parallelLimit (lines 101-123).  *)
(* A worker is the async function `worker` of parallelLimit: it runs       *)
(* without interruption up to the await of the download it started.        *)
(* Notes are numbered from 0, as the indices of `items`.                   *)

MAX_CONCURRENT_DOWNLOADS == 6

MaxNotes == 7

\* mutant: one worker per item
workerCount_Unbounded(lim, n) == n

\* line 117: Math.min(limit, items.length)
workerCount(lim, n) == Min(lim, n)

\* what the callback of line 293 resolves to: both branches return a result
DownloadOutcomes == { "downloaded", "failed" }

\* what fn(items[index], index) resolves to: the outcome, for that item
resultOf(index, outcome) == <<index, outcome>>

\* mutant: ++currentIndex
takeIndex_PreIncrement(current) == [index |-> current + 1, next |-> current + 1]

\* line 111: const index = currentIndex++
takeIndex(current) == [index |-> current, next |-> current + 1]

\* results[index] = value, and the count of the calls made for an index
store(arr, index, value) ==
    [k \in DOMAIN arr |-> IF k = index + 1 THEN value ELSE arr[k]]

called(cs, index) ==
    [k \in DOMAIN cs |-> IF k = index + 1 THEN cs[k] + 1 ELSE cs[k]]

(* Lines 110-112 up to the first await: a worker that finds                *)
(* currentIndex < items.length takes an index and calls fn, else it ends.  *)
(* s = [currentIndex, calls]; the result holds the worker and the new s.   *)
enterLoop(s, n) ==
    IF s.currentIndex < n
      THEN LET t == takeIndex(s.currentIndex)
           IN  [worker |-> [pc |-> "downloading", index |-> t.index],
                currentIndex |-> t.next, calls |-> called(s.calls, t.index)]
      ELSE [worker |-> [pc |-> "done", index |-> 0 - 1],
            currentIndex |-> s.currentIndex, calls |-> s.calls]

(* Lines 117-119: .map(() => worker()) starts the workers one after the    *)
(* other, each running to its first await before the next starts.          *)
RECURSIVE startWorkers(_, _, _)
startWorkers(k, s, n) ==
    IF k = 0 THEN [workers |-> <<>>, currentIndex |-> s.currentIndex, calls |-> s.calls]
    ELSE LET e    == enterLoop(s, n)
             rest == startWorkers(k - 1, e, n)
         IN  [workers |-> <<e.worker>> \o rest.workers,
              currentIndex |-> rest.currentIndex, calls |-> rest.calls]

InitDownload ==
    /\ items \in 0..MaxNotes
    /\ limit = MAX_CONCURRENT_DOWNLOADS
    /\ dlPc = "start"
    /\ currentIndex = 0 /\ workers = <<>> /\ results = <<>> /\ calls = <<>>
    /\ GateIdle /\ RleIdle /\ RenderIdle /\ PdfIdle
    /\ ConvIdle /\ ReaderIdle /\ ConcIdle /\ AppIdle

dlFrame == <<gateVars, rleVars, renderVars, pdfVars, convVars, lastOp, concVars, appVars>>

\* line 273: if (total === 0) return 0
DlEmpty ==
    /\ dlPc = "start" /\ items = 0
    /\ dlPc' = "returned"
    /\ UNCHANGED <<items, currentIndex, workers, results, limit, calls, dlFrame>>

\* lines 106-120 of parallelLimit, called by the importer for a list that
\* is not empty (dlPc = "start") or directly (dlPc = "call")
DlLaunch ==
    /\ \/ dlPc = "start" /\ items > 0
       \/ dlPc = "call"
    /\ \E st \in { startWorkers(workerCount(limit, items),
                                [currentIndex |-> 0, calls |-> [k \in 1..items |-> 0]],
                                items) } :
           /\ workers' = st.workers
           /\ currentIndex' = st.currentIndex
           /\ calls' = st.calls
    /\ results' = [k \in 1..items |-> <<>>]
    /\ dlPc' = "downloading"
    /\ UNCHANGED <<items, limit, dlFrame>>

\* lines 110-112: a download settles; its worker stores the result at the
\* index it took and goes round the loop
DlSettle(w) ==
    /\ dlPc = "downloading"
    /\ workers[w].pc = "downloading"
    /\ \E outcome \in DownloadOutcomes :
         results' = store(results, workers[w].index, resultOf(workers[w].index, outcome))
    /\ \E e \in { enterLoop([currentIndex |-> currentIndex, calls |-> calls], items) } :
           /\ workers' = [workers EXCEPT ![w] = e.worker]
           /\ currentIndex' = e.currentIndex
           /\ calls' = e.calls
    /\ UNCHANGED <<items, dlPc, limit, dlFrame>>

\* lines 121-122: Promise.all(workers) resolves and the results are returned
DlReturn ==
    /\ dlPc = "downloading"
    /\ \A w \in DOMAIN workers : workers[w].pc = "done"
    /\ dlPc' = "returned"
    /\ UNCHANGED <<items, currentIndex, workers, results, limit, calls, dlFrame>>

NextDownload ==
    DlEmpty \/ DlLaunch \/ (\E w \in DOMAIN workers : DlSettle(w)) \/ DlReturn

SpecDownload == InitDownload /\ [][NextDownload]_vars

---------------------------------------------------------------------------
(* parallelLimit called with any list and any limit >= 1                   *)
(* (src/src/settings.ts lines 101-123); fn never rejects.                  *)

MaxItems == 4

MaxLimit == 3

InitLimit ==
    /\ items \in 0..MaxItems
    /\ limit \in 1..MaxLimit
    /\ dlPc = "call"
    /\ currentIndex = 0 /\ workers = <<>> /\ results = <<>> /\ calls = <<>>
    /\ GateIdle /\ RleIdle /\ RenderIdle /\ PdfIdle
    /\ ConvIdle /\ ReaderIdle /\ ConcIdle /\ AppIdle

NextLimit ==
    DlLaunch \/ (\E w \in DOMAIN workers : DlSettle(w)) \/ DlReturn

SpecLimit == InitLimit /\ [][NextLimit]_vars

---------------------------------------------------------------------------
(* NoteImporter.importNotesWithProgress (src/src/settings.ts lines         *)
(* 215-412) with importSingleNote (lines 433-444) and the three import     *)
(* functions it dispatches to (lines 489-634).  Notes are numbered from 0. *)
(* The promise of the call settles as <<"value", n>> or <<"error">>.       *)
(* onProgress is the caller's function: each call of it outside a try      *)
(* block either returns or throws.                                         *)

MaxImportNotes == 3

\* what happens to one note in importPdfOnly, importMarkdownWithPdf or
\* importMarkdownOnly: every failure is caught there (lines 524, 578, 626)
NoteFates == { "imported", "download", "conversion", "vault" }

\* the ImportResult the three functions resolve to; none of them rejects
importSingleNote(fate) ==
    [rejected |-> FALSE, success |-> fate = "imported", error |-> fate]

\* lines 243-250 on the locals s of importNotesWithProgressSingle, for the
\* settled promise r of importSingleNote
countSingle(s, r) ==
    IF r.rejected
      THEN [s EXCEPT !.failureCount = @ + 1, !.i = @ + 1]
      ELSE [s EXCEPT !.successCount = @ + 1, !.i = @ + 1,
                     !.results = Append(@, r)]

\* what the copy loop finds for one downloaded note (lines 358-400)
CopyOutcomes == { "imported", "missing", "vault" }

\* mutant: a missing PDF is skipped without being counted
countCopy_MissingSkipped(b, outcome) ==
    IF outcome = "imported"
      THEN [b EXCEPT !.successCount = @ + 1, !.i = @ + 1, !.outcomes = Append(@, outcome)]
      ELSE IF outcome = "missing"
        THEN [b EXCEPT !.i = @ + 1, !.outcomes = Append(@, outcome)]
        ELSE [b EXCEPT !.failureCount = @ + 1, !.i = @ + 1, !.outcomes = Append(@, outcome)]

\* lines 358-400 on the locals b of importNotesWithProgressBatch: a missing
\* PDF (line 366) and an error of the read or of the vault write (line 399)
\* count as failures
countCopy(b, outcome) ==
    IF outcome = "imported"
      THEN [b EXCEPT !.successCount = @ + 1, !.i = @ + 1, !.outcomes = Append(@, outcome)]
      ELSE [b EXCEPT !.failureCount = @ + 1, !.i = @ + 1, !.outcomes = Append(@, outcome)]

\* lines 319-326: the indices of the results with a relativePath, in order
RECURSIVE downloadedOf(_, _)
downloadedOf(rs, k) ==
    IF k > Len(rs) THEN <<>>
    ELSE (IF rs[k] # <<>> /\ rs[k][2] = "downloaded" THEN <<rs[k][1]>> ELSE <<>>)
         \o downloadedOf(rs, k + 1)

\* mutant: the directories are removed at the end of the copy phase only
cleanupOn_CompletionOnly(end) == end = "complete"

\* lines 406-411: the finally block runs however the try block was left
cleanupOn(end) == TRUE

\* the directory the next call of cleanupTempDir is for (lines 409-410)
nextCleanup == IF Len(cleanups) = 0 THEN "input" ELSE "output"

newBatch ==
    [pc |-> "start", successCount |-> 0, failureCount |-> 0, downloadedNotes |-> <<>>,
     i |-> 0, outcomes |-> <<>>, end |-> "none", value |-> 0]

newSingle ==
    [pc |-> "idle", successCount |-> 0, failureCount |-> 0, i |-> 0, results |-> <<>>]

InitImport ==
    /\ impEntry \in {"batch", "single"}
    /\ impNotes \in 0..MaxImportNotes
    /\ batch = newBatch /\ single = newSingle
    /\ tempDirs = [input |-> "none", output |-> "none"]
    /\ cleanups = <<>> /\ impReturn = <<>>
    /\ GateIdle /\ RleIdle /\ RenderIdle /\ PdfIdle
    /\ ConvIdle /\ ReaderIdle /\ ConcIdle /\ DlIdle /\ CvtIdle /\ TrashIdle

impFrame == <<gateVars, rleVars, renderVars, pdfVars, convVars, lastOp, concVars, cvtVars,
              trashVars>>

\* lines 221-226: importNotesWithProgress calls the single-file import
SingleStart ==
    /\ impEntry = "single" /\ single.pc = "idle"
    /\ single' = [single EXCEPT !.pc = "loop"]
    /\ UNCHANGED <<impEntry, impNotes, batch, tempDirs, cleanups, impReturn, dlVars, impFrame>>

\* lines 240-251: one iteration of the loop
SingleNote ==
    /\ single.pc = "loop" /\ single.i < impNotes
    /\ \E progressThrows \in BOOLEAN :
         IF progressThrows
           THEN /\ single' = [single EXCEPT !.pc = "thrown"]
                /\ impReturn' = IF impEntry = "single" THEN <<"error">> ELSE impReturn
           ELSE /\ \E fate \in NoteFates :
                     single' = countSingle(single, importSingleNote(fate))
                /\ UNCHANGED impReturn
    /\ UNCHANGED <<impEntry, impNotes, batch, tempDirs, cleanups, dlVars, impFrame>>

\* line 253: return successCount
SingleReturn ==
    /\ single.pc = "loop" /\ ~(single.i < impNotes)
    /\ single' = [single EXCEPT !.pc = "returned"]
    /\ impReturn' = IF impEntry = "single" THEN <<"value", single.successCount>>
                                           ELSE impReturn
    /\ UNCHANGED <<impEntry, impNotes, batch, tempDirs, cleanups, dlVars, impFrame>>

\* lines 269-293: the early return, the two calls of createTempDir (the
\* input directory is made, mkdirSync may throw; the output directory is a
\* path only), the first progress report and the call of parallelLimit
BatchStart ==
    /\ impEntry = "batch" /\ batch.pc = "start"
    /\ \/ /\ impNotes = 0
          /\ batch' = [batch EXCEPT !.pc = "ended"]
          /\ impReturn' = <<"value", 0>>
          /\ UNCHANGED <<tempDirs, dlVars>>
       \/ /\ impNotes > 0
          /\ batch' = [batch EXCEPT !.pc = "ended"]
          /\ impReturn' = <<"error">>
          /\ UNCHANGED <<tempDirs, dlVars>>
       \/ /\ impNotes > 0
          /\ tempDirs' = [input |-> "exists", output |-> "path"]
          /\ batch' = [batch EXCEPT !.pc = "finally", !.end = "throw"]
          /\ UNCHANGED <<impReturn, dlVars>>
       \/ /\ impNotes > 0
          /\ tempDirs' = [input |-> "exists", output |-> "path"]
          /\ batch' = [batch EXCEPT !.pc = "download"]
          /\ items' = impNotes /\ limit' = MAX_CONCURRENT_DOWNLOADS /\ dlPc' = "call"
          /\ UNCHANGED <<impReturn, currentIndex, workers, results, calls>>
    /\ UNCHANGED <<impEntry, impNotes, single, cleanups, impFrame>>

\* lines 316-339: parallelLimit has resolved; the results are separated,
\* and either nothing was downloaded or convertDirectory is called
BatchDownloaded ==
    /\ batch.pc = "download" /\ dlPc = "returned"
    /\ \E dn \in { downloadedOf(results, 1) } :
       \E b \in { [batch EXCEPT !.downloadedNotes = dn,
                                !.failureCount = Len(results) - Len(dn)] } :
         IF Len(dn) = 0
           THEN batch' = [b EXCEPT !.pc = "finally", !.end = "nothingDownloaded",
                                   !.value = 0]
           ELSE \E progressThrows \in BOOLEAN :
                  batch' = IF progressThrows
                             THEN [b EXCEPT !.pc = "finally", !.end = "throw"]
                             ELSE [b EXCEPT !.pc = "convert"]
    /\ UNCHANGED <<impEntry, impNotes, single, tempDirs, cleanups, impReturn, dlVars,
                   impFrame>>

\* lines 339-351: convertDirectory resolves (it catches every error); the
\* converter may have made the output directory.  On failure the single-file
\* import is called and its promise returned, which leaves the try block.
BatchConverted ==
    /\ batch.pc = "convert"
    /\ \E out \in {"path", "exists"} : tempDirs' = [tempDirs EXCEPT !.output = out]
    /\ \E success \in BOOLEAN :
         IF ~success
           THEN /\ single' = [single EXCEPT !.pc = "loop"]
                /\ batch' = [batch EXCEPT !.pc = "finally", !.end = "fallback"]
           ELSE /\ \E progressThrows \in BOOLEAN :
                     batch' = IF progressThrows
                                THEN [batch EXCEPT !.pc = "finally", !.end = "throw"]
                                ELSE [batch EXCEPT !.pc = "copy"]
                /\ UNCHANGED single
    /\ UNCHANGED <<impEntry, impNotes, cleanups, impReturn, dlVars, impFrame>>

\* lines 354-401: one iteration of the copy loop
BatchCopy ==
    /\ batch.pc = "copy" /\ batch.i < Len(batch.downloadedNotes)
    /\ \E progressThrows \in BOOLEAN :
         IF progressThrows
           THEN batch' = [batch EXCEPT !.pc = "finally", !.end = "throw"]
           ELSE \E outcome \in CopyOutcomes : batch' = countCopy(batch, outcome)
    /\ UNCHANGED <<impEntry, impNotes, single, tempDirs, cleanups, impReturn, dlVars,
                   impFrame>>

\* lines 403-404: return successCount
BatchCopied ==
    /\ batch.pc = "copy" /\ ~(batch.i < Len(batch.downloadedNotes))
    /\ batch' = [batch EXCEPT !.pc = "finally", !.end = "complete",
                              !.value = batch.successCount]
    /\ UNCHANGED <<impEntry, impNotes, single, tempDirs, cleanups, impReturn, dlVars,
                   impFrame>>

\* lines 406-410 and cleanupTempDir: one call; an error of the removal is
\* caught and logged, and the directory stays
BatchCleanup ==
    /\ batch.pc = "finally" /\ cleanupOn(batch.end) /\ Len(cleanups) < 2
    /\ cleanups' = Append(cleanups, nextCleanup)
    /\ \E removed \in BOOLEAN :
         tempDirs' = IF removed /\ tempDirs[nextCleanup] = "exists"
                       THEN [tempDirs EXCEPT ![nextCleanup] = "removed"]
                       ELSE tempDirs
    /\ UNCHANGED <<impEntry, impNotes, batch, single, impReturn, dlVars, impFrame>>

\* the end of the finally block: the promise settles as the try block was
\* left, after the single-file import when its promise was returned
BatchEnd ==
    /\ batch.pc = "finally"
    /\ ~(cleanupOn(batch.end) /\ Len(cleanups) < 2)
    /\ batch.end = "fallback" => single.pc \in {"returned", "thrown"}
    /\ batch' = [batch EXCEPT !.pc = "ended"]
    /\ impReturn' =
         IF batch.end = "throw" THEN <<"error">>
         ELSE IF batch.end = "fallback"
           THEN (IF single.pc = "thrown" THEN <<"error">>
                                         ELSE <<"value", single.successCount>>)
         ELSE <<"value", batch.value>>
    /\ UNCHANGED <<impEntry, impNotes, single, tempDirs, cleanups, dlVars, impFrame>>

NextImport ==
    \/ SingleStart \/ SingleNote \/ SingleReturn
    \/ BatchStart \/ DlLaunch \/ (\E w \in DOMAIN workers : DlSettle(w)) \/ DlReturn
    \/ BatchDownloaded \/ BatchConverted \/ BatchCopy \/ BatchCopied
    \/ BatchCleanup \/ BatchEnd

SpecImport == InitImport /\ [][NextImport]_vars

---------------------------------------------------------------------------
(* PdfConverter.convert (src/unnamed/part_000 lines 218-371).  A           *)
(* ConversionResult is a record with the keys of the object literal the    *)
(* code returns; pdfData is the number of bytes of the PDF.  The built-in  *)
(* mode runs getNoteInfo and convertNoteToPdf of note-parser.ts, modelled  *)
(* above, on the bytes it is given.                                        *)

\* the object literals of lines 242-246, 255-259, 301-305, 328-332, 365-369
failureResult(message) == [success |-> FALSE, error |-> message, conversionTimeMs |-> 0]

\* lines 289-293
cliSuccess(pdfBytes) == [success |-> TRUE, pdfData |-> pdfBytes, conversionTimeMs |-> 0]

\* lines 348-353
builtinSuccess(pdfBytes, pages) ==
    [success |-> TRUE, pdfData |-> pdfBytes, conversionTimeMs |-> 0, pageCount |-> pages]

\* mutant: the input file is written before the try block is entered
inTry_WriteOutside(step) == step \in {"exec", "read", "getNoteInfo", "convertNoteToPdf"}

\* the awaits and calls inside the try blocks of lines 269-295 and 337-355
inTry(step) == step \in {"write", "exec", "read", "getNoteInfo", "convertNoteToPdf"}

\* getNoteInfo (note-parser.ts lines 626-644): the page count, or a throw
getNoteInfo(data) ==
    IF validateNoteFile(data).error # "" THEN [ok |-> FALSE, pageCount |-> 0]
    ELSE Bind(parseNotebook(data),
              LAMBDA nb : [ok |-> nb.ok, pageCount |-> Len(nb.pages)])

\* the page loop of convertNoteToPdf (note-parser.ts lines 605-616)
RECURSIVE renderPages(_, _, _)
renderPages(data, p, pages) ==
    IF pages = <<>> THEN TRUE
    ELSE Bind(renderPage(data, p, pages[1]),
              LAMBDA r : IF ~r.ok THEN FALSE ELSE renderPages(data, r.pos, Tail(pages)))

\* convertNoteToPdf (note-parser.ts lines 591-621): whether it resolves
convertNoteToPdf(data) ==
    IF validateNoteFile(data).error # "" THEN FALSE
    ELSE Bind(parseNotebook(data),
              LAMBDA nb : nb.ok /\ renderPages(data, nb.pos, nb.pages))

\* the sizes of a PDF read back or built
PdfSizes == { 0, 1234 }

CvtInputs == { <<>> } \cup Documents

InitConverter ==
    /\ cvtMode \in {"cli", "builtin"}
    /\ noteData \in CvtInputs
    /\ cvtPc = "start" /\ cvtResult = <<>> /\ cvtCause = ""
    /\ tempFiles = [input |-> FALSE, output |-> FALSE]
    /\ pos = 0 /\ entry = "none" /\ convPc = "idle" /\ convError = ""
    /\ blocksResolved = 0 /\ footerMap = <<>>
    /\ RleIdle /\ RenderIdle /\ PdfIdle
    /\ ConvIdle /\ ReaderIdle /\ ConcIdle /\ DlIdle /\ ImpIdle /\ TrashIdle

cvtFrame == <<gateVars, rleVars, renderVars, pdfVars, convVars, lastOp, concVars, dlVars,
              impVars, trashVars, cvtMode>>

\* a step of the call has failed: inside a try block the catch clause
\* builds a failure result, outside the promise rejects
failed(step, cause, next) ==
    /\ cvtCause' = cause
    /\ IF inTry(step)
         THEN /\ cvtResult' = failureResult(cause)
              /\ cvtPc' = next
         ELSE /\ cvtResult' = cvtResult
              /\ cvtPc' = "rejected"

\* lines 231-271: the CLI is looked up (findCliTool catches every error),
\* empty input is refused, and the input file is about to be written
CliStart ==
    /\ cvtMode = "cli" /\ cvtPc = "start"
    /\ \E found \in BOOLEAN :
         IF ~found
           THEN /\ cvtResult' = failureResult("cliNotFound")
                /\ cvtCause' = "cliNotFound" /\ cvtPc' = "resolved"
           ELSE IF Len(noteData) = 0
             THEN /\ cvtResult' = failureResult("empty")
                  /\ cvtCause' = "empty" /\ cvtPc' = "resolved"
             ELSE /\ cvtPc' = "write"
                  /\ UNCHANGED <<cvtResult, cvtCause>>
    /\ UNCHANGED <<tempFiles, cvtFrame>>

\* line 271: await fs.promises.writeFile(inputPath, ...)
CliWrite ==
    /\ cvtPc = "write"
    /\ \E ok \in BOOLEAN :
         IF ok
           THEN /\ tempFiles' = [tempFiles EXCEPT !.input = TRUE]
                /\ cvtPc' = "exec"
                /\ UNCHANGED <<cvtResult, cvtCause>>
           ELSE /\ failed("write", "writeFailed", "cleanup")
                /\ UNCHANGED tempFiles
    /\ UNCHANGED cvtFrame

\* line 278: await execAsync(cmd); the converter may leave an output file
CliExec ==
    /\ cvtPc = "exec"
    /\ \E written \in BOOLEAN : tempFiles' = [tempFiles EXCEPT !.output = written]
    /\ \E ok \in BOOLEAN :
         IF ok
           THEN cvtPc' = "read" /\ UNCHANGED <<cvtResult, cvtCause>>
           ELSE failed("exec", "cliFailed", "cleanup")
    /\ UNCHANGED cvtFrame

\* lines 283-293: await fs.promises.readFile(outputPath)
CliRead ==
    /\ cvtPc = "read"
    /\ \E ok \in BOOLEAN :
         IF ok /\ tempFiles.output
           THEN /\ \E n \in PdfSizes : cvtResult' = cliSuccess(n)
                /\ cvtPc' = "cleanup"
                /\ UNCHANGED cvtCause
           ELSE failed("read", "readFailed", "cleanup")
    /\ UNCHANGED <<tempFiles, cvtFrame>>

\* lines 307-315: both unlinks, their errors ignored; then the result of
\* the try or of the catch block is returned
CliCleanup ==
    /\ cvtPc = "cleanup"
    /\ \E gone \in [{"input", "output"} -> BOOLEAN] :
         tempFiles' = [f \in {"input", "output"} |-> tempFiles[f] /\ ~gone[f]]
    /\ cvtPc' = "resolved"
    /\ UNCHANGED <<cvtResult, cvtCause, cvtFrame>>

\* lines 321-342: empty input is refused; getNoteInfo runs, and
\* convertNoteToPdf is called
BuiltinStart ==
    /\ cvtMode = "builtin" /\ cvtPc = "start"
    /\ IF Len(noteData) = 0
         THEN /\ cvtResult' = failureResult("empty")
              /\ cvtCause' = "empty" /\ cvtPc' = "resolved"
         ELSE \E info \in { getNoteInfo(noteData) } :
                IF info.ok
                  THEN /\ cvtPc' = "converting"
                       /\ cvtResult' = [pageCount |-> info.pageCount]
                       /\ UNCHANGED cvtCause
                  ELSE failed("getNoteInfo", "parserFailed", "resolved")
    /\ UNCHANGED <<tempFiles, cvtFrame>>

\* lines 342-353: await convertNoteToPdf(noteData)
BuiltinConverted ==
    /\ cvtPc = "converting"
    /\ \E ok \in { convertNoteToPdf(noteData) } :
         IF ok
           THEN /\ \E n \in PdfSizes \ {0} :
                     cvtResult' = builtinSuccess(n, cvtResult.pageCount)
                /\ cvtPc' = "resolved"
                /\ UNCHANGED cvtCause
           ELSE failed("convertNoteToPdf", "parserFailed", "resolved")
    /\ UNCHANGED <<tempFiles, cvtFrame>>

NextConverter ==
    \/ CliStart \/ CliWrite \/ CliExec \/ CliRead \/ CliCleanup
    \/ BuiltinStart \/ BuiltinConverted

SpecConverter == InitConverter /\ [][NextConverter]_vars

---------------------------------------------------------------------------
(* The trash of the plugin (src/unnamed/part_002 lines 622-647):           *)
(* trashNote, restoreNote and restoreAllNotes change                       *)
(* settings.trashedNoteIds before their first await, and then wait for     *)
(* saveSettings.  Calls are started by UI callbacks (`void                 *)
(* this.trashNote(noteId)`), so a call can start while others wait.        *)

NoteIds == { "a", "b", "c" }

\* the calls that may wait for saveSettings at the same time
MaxPendingSaves == 2

\* the notices counted
MaxNotices == 2

\* Array.prototype.includes
includes(list, id) == \E k \in 1..Len(list) : list[k] = id

\* Array.prototype.filter(x => x !== id)
RECURSIVE filterOut(_, _)
filterOut(list, id) ==
    IF list = <<>> THEN <<>>
    ELSE (IF list[1] # id THEN << list[1] >> ELSE <<>>) \o filterOut(Tail(list), id)

\* mutant: the id is pushed without the includes test
trashList_AlwaysPush(list, id) == Append(list, id)

\* lines 626-627: push unless the id is there already
trashList(list, id) == IF ~includes(list, id) THEN Append(list, id) ELSE list

\* the lists without duplicates
NoDuplicates(list) == \A m, n \in 1..Len(list) : list[m] = list[n] => m = n

TrashLists ==
    { list \in UNION { [1..n -> NoteIds] : n \in 0..Cardinality(NoteIds) } :
        NoDuplicates(list) }

InitTrash ==
    /\ trashedNoteIds \in TrashLists
    /\ trashOp = <<>> /\ pendingSaves = <<>> /\ notices = 0
    /\ GateIdle /\ RleIdle /\ RenderIdle /\ PdfIdle
    /\ ConvIdle /\ ReaderIdle /\ ConcIdle /\ DlIdle /\ ImpIdle /\ CvtIdle

trashFrame == <<gateVars, rleVars, renderVars, pdfVars, convVars, lastOp, concVars, dlVars,
                impVars, cvtVars>>

\* trashNote up to its await (lines 625-628)
TrashNote(noteId) ==
    /\ Len(pendingSaves) < MaxPendingSaves
    /\ trashedNoteIds' = trashList(trashedNoteIds, noteId)
    /\ pendingSaves' = IF ~includes(trashedNoteIds, noteId)
                         THEN Append(pendingSaves, "trashNote") ELSE pendingSaves
    /\ trashOp' = <<"trashNote", noteId>>
    /\ UNCHANGED <<notices, trashFrame>>

\* restoreNote up to its await (lines 636-638)
RestoreNote(noteId) ==
    /\ Len(pendingSaves) < MaxPendingSaves
    /\ trashedNoteIds' = filterOut(trashedNoteIds, noteId)
    /\ pendingSaves' = Append(pendingSaves, "restoreNote")
    /\ trashOp' = <<"restoreNote", noteId>>
    /\ UNCHANGED <<notices, trashFrame>>

\* restoreAllNotes up to its await (lines 644-646)
RestoreAllNotes ==
    /\ Len(pendingSaves) < MaxPendingSaves
    /\ trashedNoteIds' = <<>>
    /\ pendingSaves' = Append(pendingSaves, "restoreAllNotes")
    /\ trashOp' = <<"restoreAllNotes", "">>
    /\ UNCHANGED <<notices, trashFrame>>

\* saveSettings (lines 47-49) settles for the call that has waited
\* longest; trashNote then shows its notice (line 629) unless the save
\* has failed
SaveSettled ==
    /\ pendingSaves # <<>>
    /\ pendingSaves' = Tail(pendingSaves)
    /\ \E saved \in BOOLEAN :
         notices' = IF saved /\ pendingSaves[1] = "trashNote" /\ notices < MaxNotices
                      THEN notices + 1 ELSE notices
    /\ UNCHANGED <<trashedNoteIds, trashOp, trashFrame>>

NextTrash ==
    \/ \E noteId \in NoteIds : TrashNote(noteId)
    \/ \E noteId \in NoteIds : RestoreNote(noteId)
    \/ RestoreAllNotes
    \/ SaveSettled

SpecTrash == InitTrash /\ [][NextTrash]_vars

---------------------------------------------------------------------------
(* Claims about the signature gate *)

\* The 20 bytes at offsets 4..23 start with the bytes of a recognized prefix
SignatureBytesRecognized ==
    /\ Len(noteData) >= 24
    /\ \E prefix \in VALID_SIGNATURE_PREFIXES : StartsWith(Slice(noteData, 4, 24), prefix)

\* C1: a buffer shorter than 100 bytes, or whose bytes 4..23 do not start
\* with a recognized prefix, is rejected by both entry points before any
\* metadata block is resolved: the call never gets past validation.
C1_SignatureGateRejects ==
    (Len(noteData) < MIN_NOTE_FILE_SIZE \/ ~SignatureBytesRecognized)
        => (convPc \in {"start", "failed"} /\ blocksResolved = 0)

---------------------------------------------------------------------------
(* Claims about decodeRLE *)

\* number of pixels of colour c at the start of the raster
RECURSIVE LeadingCount(_, _)
LeadingCount(out, c) ==
    IF out = <<>> \/ out[1].color # c THEN 0
    ELSE out[1].count + LeadingCount(Tail(out), c)

\* number of pixels of colour c in the raster
RECURSIVE ColorCount(_, _)
ColorCount(out, c) ==
    IF out = <<>> THEN 0
    ELSE (IF out[1].color = c THEN out[1].count ELSE 0) + ColorCount(Tail(out), c)

\* the runs of `out` from the first run that is not of colour c
RECURSIVE DropLeading(_, _)
DropLeading(out, c) ==
    IF out = <<>> \/ out[1].color # c THEN out ELSE DropLeading(Tail(out), c)

\* C2: for every compressed input (empty, odd length, ending in an
\* unresolved escape, too short or too long) and every width and height,
\* decodeRLE runs to its end and the raster it returns has exactly
\* width * height pixels.
C2_RasterLengthExact ==
    /\ rlePc = "done" => PixelCount(decompressed) = width * height
    /\ rlePc \in {"loop", "tail", "pad"} => ENABLED NextRLE

C2_Witness ==
    /\ rlePc = "done"
    /\ Len(compressedData) = 3
    /\ holder # <<>>
    /\ width * height = 4
    /\ PixelCount(decompressed) = 4

\* C3: a held pair (c, h) followed by a pair (c, l) of the same colour is
\* emitted as exactly one run, of colour c and of
\* 1 + l + (((h & 0x7F) + 1) << 7) pixels, and nothing stays held.
C3_SameColourEscape ==
    [][ ( /\ rlePc = "loop" /\ holder # <<>>
          /\ morePairs(rleState, compressedData)
          /\ compressedData[i + 1] = holder[1] )
        => ( /\ decompressed' = Append(decompressed,
                   [color |-> holder[1],
                    count |-> 1 + compressedData[i + 2] + (holder[2] - 128 + 1) * 128])
             /\ holder' = <<>> ) ]_vars

C3_Witness ==
    /\ rlePc = "loop" /\ i = 4 /\ holder = <<>>
    /\ compressedData[2] \in 128..254
    /\ compressedData[1] = compressedData[3]
    /\ compressedData[4] = 255
    /\ Len(decompressed) = 1


\* every pixel of the raster is the padding colour
OnlyPadding(out) == \A k \in 1..Len(out) : out[k].color = TRANSPARENT

\* (0x61, 0x85) (0x61, 0x03)
SameColourSample == <<97, 133, 97, 3>>

\* (0x61, 0x85) (0x65, 0x03)
ColourChangeSample == <<97, 133, 101, 3>>

\* C4 as stated: the pairs (0x61, 0x85) (0x61, 0x03), decoded into a raster
\* that can hold them, give a run of exactly 650 pixels of colour 0x61.
C4_Run650 ==
    (rlePc = "done" /\ compressedData = SameColourSample /\ width * height >= 650)
        => ( /\ LeadingCount(decompressed, 97) = 650
             /\ ColorCount(decompressed, 97) = 650 )

\* C4 amended: the pairs (0x61, 0x85) (0x61, 0x03), decoded into a raster
\* that can hold them, give a run of exactly 772 = 1 + 3 + (6 << 7) pixels of
\* colour 0x61, and every pixel after the run is padding.
C4_Run772 ==
    (rlePc = "done" /\ compressedData = SameColourSample /\ width * height >= 772)
        => ( /\ LeadingCount(decompressed, 97) = 772
             /\ ColorCount(decompressed, 97) = 772
             /\ OnlyPadding(DropLeading(decompressed, 97)) )

C4_Witness ==
    /\ rlePc = "done" /\ compressedData = SameColourSample
    /\ width * height = 1000
    /\ PixelCount(decompressed) = 1000

\* C5: a held pair (c1, h) followed by a pair (c2, l) of another colour
\* appends ((h & 0x7F) + 1) << 7 pixels of c1 and, right after them, l + 1
\* pixels of c2 -- nothing else, in that order -- and nothing stays held.
C5_ColourChangeFlush ==
    [][ ( /\ rlePc = "loop" /\ holder # <<>>
          /\ morePairs(rleState, compressedData)
          /\ compressedData[i + 1] # holder[1] )
        => ( /\ decompressed' = decompressed \o
                   << [color |-> holder[1], count |-> (holder[2] - 128 + 1) * 128],
                      [color |-> compressedData[i + 1],
                       count |-> compressedData[i + 2] + 1] >>
             /\ holder' = <<>> ) ]_vars

C5_Witness ==
    /\ rlePc = "loop" /\ i = 4 /\ holder = <<>>
    /\ compressedData[2] \in 128..254
    /\ compressedData[1] # compressedData[3]
    /\ compressedData[4] = 255
    /\ Len(decompressed) = 2

\* C6 as stated: the pairs (0x61, 0x85) (0x65, 0x03), decoded into a raster
\* that can hold them, give exactly 640 pixels of 0x61 immediately followed
\* by exactly 4 pixels of 0x65.
C6_Flush640 ==
    (rlePc = "done" /\ compressedData = ColourChangeSample /\ width * height >= 644)
        => ( /\ LeadingCount(decompressed, 97) = 640
             /\ LeadingCount(DropLeading(decompressed, 97), 101) = 4 )

\* C6 amended: the pairs (0x61, 0x85) (0x65, 0x03), decoded into a raster
\* that can hold them, give exactly 768 = 6 << 7 pixels of 0x61 immediately
\* followed by exactly 4 pixels of 0x65, and only padding after them.
C6_Flush768 ==
    (rlePc = "done" /\ compressedData = ColourChangeSample /\ width * height >= 772)
        => ( /\ LeadingCount(decompressed, 97) = 768
             /\ LeadingCount(DropLeading(decompressed, 97), 101) = 4
             /\ ColorCount(decompressed, 97) = 768
             /\ ColorCount(decompressed, 101) = 4
             /\ OnlyPadding(DropLeading(DropLeading(decompressed, 97), 101)) )

C6_Witness ==
    /\ rlePc = "done" /\ compressedData = ColourChangeSample
    /\ width = A5X_WIDTH /\ height = A5X_HEIGHT
    /\ Len(decompressed) = 3


---------------------------------------------------------------------------
(* Claims about renderPage *)

\* C8: at a layer whose protocol tag is not a recognized codec, whatever its
\* bitmap address (zero, valid, or outside the buffer), the canvas stays as it
\* was, no error is raised and the loop goes on to the next layer.
C8_UnknownProtocolSkipped ==
    [][ (atLayer /\ layer.protocol \notin {"RATTA_RLE", "PNG"}
                 /\ layer.bitmapAddress # NaN)
        => ( /\ canvas' = canvas
             /\ renderPc' = "loop"
             /\ layerIdx' = layerIdx + 1 ) ]_vars

\* the RGBA pixels of the layer composited last (layerIdx >= 1)
lastLayerRGBA ==
    IF layers[layerIdx].protocol = "RATTA_RLE"
      THEN [k \in 1..Len(layerPixels) |-> toRGBA(layerPixels[k])]
      ELSE layerPixels

lastLayerComposited ==
    /\ renderPc \in {"loop", "done"}
    /\ layerIdx >= 1
    /\ layerPixels # <<>>

AllOpaque(rgba) == \A k \in 1..Len(rgba) : rgba[k][4] = 255

\* C9: once a layer whose every pixel has alpha 255 has been composited, the
\* canvas holds exactly that layer's colours with alpha 255, whatever the
\* earlier layers left on it; compositing the same layer again changes nothing.
C9_OpaqueLayerOverwrites ==
    (lastLayerComposited /\ AllOpaque(lastLayerRGBA))
        => ( /\ canvas = lastLayerRGBA
             /\ compositePNG(canvas, lastLayerRGBA) = canvas )

\* an opaque black PNG layer over a canvas that the first layer made dark grey
C9_Witness ==
    /\ lastLayerComposited /\ layerIdx = 2
    /\ layers[1] = [protocol |-> "RATTA_RLE", bitmapAddress |-> 12]
    /\ layers[2].protocol = "PNG"
    /\ layerPixels = [k \in 1..(width * height) |-> <<0, 0, 0, 255>>]
    /\ canvas = layerPixels

\* v is the integer nearest to num / den
Nearest(v, num, den) ==
    /\ 2 * (den * v - num) <= den
    /\ 2 * (num - den * v) <= den

\* C10: a source pixel with 0 < alpha < 255 sets each colour channel of the
\* destination to round(src * alpha/255 + dst * (1 - alpha/255)) and leaves
\* its alpha at 255; a pixel (0, 0, 0) of alpha 128 over white gives the
\* mid-grey 127 in every channel, not 0 and not 255.
C10_BlendRounds ==
    [][ (renderPc = "await" /\ layerPixels' # <<>>)
        => \A k \in 1..Len(canvas) :
             LET src == layerPixels'[k]
                 dst == canvas[k]
                 new == canvas'[k]
             IN  (0 < src[4] /\ src[4] < 255)
                   => ( /\ \A ch \in 1..3 :
                             Nearest(new[ch],
                                     src[ch] * src[4] + dst[ch] * (255 - src[4]), 255)
                        /\ new[4] = 255
                        /\ (src = <<0, 0, 0, 128>> /\ dst = <<255, 255, 255, 255>>)
                             => new = <<127, 127, 127, 255>> ) ]_vars

C10_Witness ==
    /\ lastLayerComposited /\ layerIdx = 1
    /\ layers[1].protocol = "PNG"
    /\ layerPixels = [k \in 1..(width * height) |-> <<0, 0, 0, 128>>]
    /\ canvas = [k \in 1..(width * height) |-> <<127, 127, 127, 255>>]


\* C17: when decodePNG reports a failure (null) for a layer, the canvas is
\* left as it was, renderPage raises no error and goes on to the next layer.
C17_PngFailureSkipsLayer ==
    [][ (renderPc = "await" /\ layerPixels' = <<>>)
          => /\ canvas' = canvas
             /\ renderPc' = "loop"
             /\ layerIdx' = layerIdx + 1 ]_vars

\* the PNG decode of the first of two layers has failed: the canvas is
\* still white and the loop is at the second layer
C17_Witness ==
    /\ renderPc = "loop" /\ layerIdx = 1 /\ Len(layers) = 2
    /\ layers[1].protocol = "PNG" /\ layers[1].bitmapAddress = 4
    /\ layers[2].protocol = "RATTA_RLE" /\ layers[2].bitmapAddress = 12
    /\ layerPixels = <<>>
    /\ canvas = whiteCanvas(width, height)

---------------------------------------------------------------------------
(* Claims about buildPDF *)

\* the byte offset, in the concatenation of the chunks, at which chunk j begins
RECURSIVE OffsetOfChunk(_, _)
OffsetOfChunk(cs, j) ==
    IF j <= 1 THEN 0 ELSE OffsetOfChunk(cs, j - 1) + cs[j - 1].bytes

XrefEntries == SelectSeq(chunks, LAMBDA c : c.kind = "xrefEntry")

ChunksOfKind(kind) == { j \in 1..Len(chunks) : chunks[j].kind = kind }

\* C7: in the emitted document the cross-reference entry of each object
\* k = 1 .. 3n + 2 prints exactly the byte offset at which 'k 0 obj' begins,
\* and the startxref line prints exactly the byte offset of 'xref'.
C7_XrefOffsetsExact ==
    pdfPc = "done" =>
      /\ Len(XrefEntries) = 3 * Len(pageImages) + 2
      /\ \A k \in 1..(3 * Len(pageImages) + 2) :
            /\ Cardinality({ j \in 1..Len(chunks) : chunks[j].obj = k }) = 1
            /\ \A j \in 1..Len(chunks) :
                  chunks[j].obj = k => XrefEntries[k].value = OffsetOfChunk(chunks, j)
      /\ \A j \in ChunksOfKind("xref") :
            \A v \in ChunksOfKind("startxrefValue") :
                chunks[v].value = OffsetOfChunk(chunks, j)
      /\ Cardinality(ChunksOfKind("xref")) = 1
      /\ Cardinality(ChunksOfKind("startxrefValue")) = 1

C7_Witness ==
    /\ pdfPc = "done"
    /\ Len(pageImages) = 2
    /\ pageImages[1] = 12345
    /\ Len(XrefEntries) = 8

---------------------------------------------------------------------------
(* Claims about the reader and parseMetadataBlock *)

\* the length prefix stored at a block address inside the buffer
prefixAt(address) == readU32LE(noteData, address).val

\* an address, or the length prefix found there, that names no block
InvalidBlock(address) ==
    \/ address = NaN
    \/ address < 0
    \/ address > Len(noteData) - 4
    \/ prefixAt(address) <= 0
    \/ prefixAt(address) > Len(noteData) - address - 4

\* C11: parseMetadataBlock never raises; for address 0, for an invalid
\* address (negative, beyond length - 4, or the NaN of a non-numeric text)
\* and for an invalid length prefix it returns the empty record.
C11_RecordParsingNeverRaises ==
    (lastOp # <<>> /\ lastOp.op = "parseMetadataBlock")
        => /\ lastOp.ok
           /\ (lastOp.arg = 0 \/ InvalidBlock(lastOp.arg)) => lastOp.val = <<>>

\* the cursor is at a position of the buffer (its end included)
CursorInRange == pos # NaN /\ pos >= 0 /\ pos <= Len(noteData)

\* the position an operation was asked for lies in the buffer
AskedInRange ==
    CASE lastOp.op = "seek" ->
           lastOp.arg # NaN /\ lastOp.arg >= 0 /\ lastOp.arg <= Len(noteData)
      [] lastOp.op = "seekEnd" ->
           /\ lastOp.arg # NaN
           /\ Len(noteData) + lastOp.arg >= 0 /\ lastOp.arg <= 0
      [] OTHER ->
           /\ lastOp.arg # NaN /\ lastOp.arg >= 0
           /\ lastOp.before # NaN /\ lastOp.before >= 0
           /\ lastOp.before + lastOp.arg <= Len(noteData)

\* C18: a reader operation asked for a position or range that is not inside
\* the buffer (negative and NaN arguments included) throws; a read returns
\* as many bytes as requested; the cursor never leaves the buffer.
C18_ReaderRejectsOutOfRange ==
    (lastOp # <<>> /\ lastOp.op # "parseMetadataBlock")
        => /\ ~AskedInRange => ~lastOp.ok
           /\ (lastOp.op = "readBytes" /\ lastOp.ok)
                 => Len(lastOp.val) = lastOp.arg
           /\ CursorInRange

---------------------------------------------------------------------------
(* Claims about parseNotebook and convertNoteToPdf *)

\* the footer address stored in the last 4 bytes of the buffer
storedFooterAddr == readU32LE(noteData, Len(noteData) - 4).val

\* C12: when the stored footer address of a buffer that passed the
\* signature gate lies outside the buffer, convertNoteToPdf does not
\* return a document: it never gets to build or return one.
C12_FooterOutsideIsFatal ==
    (/\ entry = "convertNoteToPdf"
     /\ convPc \notin {"start", "idle"}
     /\ validateNoteFile(noteData).error = ""
     /\ storedFooterAddr > Len(noteData))
        => convPc \notin {"building", "returned"}

\* the bitmap block at an address cannot be read from the buffer
BitmapUnreadable(address) ==
    \/ address = NaN
    \/ address < 0
    \/ address + 4 > Len(noteData)
    \/ address + 4 + prefixAt(address) > Len(noteData)

\* renderPage has to read a bitmap block that is not in the buffer
PageRaises(page) ==
    \E j \in 1..Len(page.layers) :
        /\ page.layers[j].bitmapAddress # 0
        /\ BitmapUnreadable(page.layers[j].bitmapAddress)

\* the page objects of the emitted document, in the order written
PageObjects == SelectSeq(chunks, LAMBDA c : c.kind = "page")

\* the image data of the emitted document, in the order written
PixelChunks == SelectSeq(chunks, LAMBDA c : c.kind = "pixels")

\* C13: convertNoteToPdf is all-or-nothing: when a page of the resolved
\* document cannot be rendered no document is built or returned, and a
\* returned document has exactly one page object per resolved page entry.
C13_AllOrNothing ==
    (entry = "convertNoteToPdf" /\ notebook # <<>>)
        => /\ (\E k \in 1..Len(notebook.pages) : PageRaises(notebook.pages[k]))
                => (convPc \notin {"building", "returned"} /\ chunks = <<>>)
           /\ convPc = "returned"
                => /\ Len(notebook.pages) = Len(pageEntries)
                   /\ Len(renderedPages) = Len(pageEntries)
                   /\ Len(PageObjects) = Len(pageEntries)
                   /\ Len(PixelChunks) = Len(pageEntries)

\* the second page raised after the first was rendered: the call failed
\* with nothing written
C13_Witness ==
    /\ entry = "convertNoteToPdf" /\ notebook # <<>>
    /\ convPc = "failed" /\ convError = "renderFailed"
    /\ Len(notebook.pages) = 2 /\ Len(renderedPages) = 1
    /\ ~PageRaises(notebook.pages[1]) /\ PageRaises(notebook.pages[2])
    /\ chunks = <<>>

\* the page entries of the footer record of the buffer, in declaration order
declaredPages ==
    collectPageEntries(metadataRecord(noteData, 0, storedFooterAddr).record)

\* the number of times e occurs in the sequence s
Occurrences(s, e) == Cardinality({ k \in 1..Len(s) : s[k] = e })

\* C14: the resolved pages are the page entries of the footer in ascending
\* order of page number, whatever their declaration order and addresses;
\* pages are rendered, and their page objects written, in that order.
C14_PagesAscending ==
    notebook # <<>>
        => /\ \A k \in 1..(Len(pageEntries) - 1) :
                 pageEntries[k].pageNum <= pageEntries[k + 1].pageNum
           /\ Len(pageEntries) = Len(declaredPages)
           /\ \A k \in 1..Len(declaredPages) :
                 Occurrences(pageEntries, declaredPages[k])
                    = Occurrences(declaredPages, declaredPages[k])
           /\ Len(notebook.pages) = Len(pageEntries)
           /\ \A k \in 1..Len(pageEntries) :
                 notebook.pages[k].addr = pageEntries[k].addr
           /\ \A k \in 1..Len(renderedPages) :
                 renderedPages[k].addr = pageEntries[k].addr
           /\ convPc = "returned" /\ entry = "convertNoteToPdf"
                => /\ Len(PageObjects) = Len(pageEntries)
                   /\ \A k \in 1..Len(PageObjects) :
                         /\ PageObjects[k].obj = 3 * k
                         /\ PixelChunks[k].chars = pageImages[k]

\* a returned document whose footer declares the higher page number first
\* and stores that page at the lower address
C14_Witness ==
    /\ convPc = "returned" /\ entry = "convertNoteToPdf"
    /\ Len(declaredPages) = 2
    /\ declaredPages[1].pageNum > declaredPages[2].pageNum
    /\ declaredPages[1].addr < declaredPages[2].addr
    /\ Len(PageObjects) = 2
    /\ renderedPages[1].addr = declaredPages[2].addr

\* the record stored at an address of the buffer
recordAt(address) == metadataRecord(noteData, 0, address).record

\* the identifiers of the layers of a page, in the order of its layer list
layerKeys(ls) == [j \in 1..Len(ls) |-> ls[j].key]

\* the layer order a page record declares: its layer-order key if present,
\* else the default
declaredOrder(pageMap) ==
    IF mapHas(pageMap, K_LAYERSEQ) THEN Split(mapGet(pageMap, K_LAYERSEQ))
    ELSE DefaultLayerOrder

\* C15 as stated: the layer list of every page is the identifiers of the
\* declared order (layer-order key if present, else the default) that occur
\* as keys of the page record, in that order, and is no longer than it.
C15_LayersAreKeysOfDeclaredOrder ==
    notebook # <<>> =>
      \A k \in 1..Len(notebook.pages) :
        LET pageMap == recordAt(notebook.pages[k].addr)
            order   == declaredOrder(pageMap)
        IN  /\ layerKeys(notebook.pages[k].layers)
                 = SelectSeq(order, LAMBDA id : mapHas(pageMap, id))
            /\ Len(notebook.pages[k].layers) <= Len(order)

\* the layers of a page whose bytes reach a decoder
decodedLayers(ls) ==
    SelectSeq(ls, LAMBDA l : l.bitmapAddress # 0
                             /\ l.protocol \in {V_RATTA_RLE, V_PNG})

\* C15, amended: the order used is the layer-order key when it is present
\* and not empty, else the default; the layer list is the identifiers of
\* that order whose value in the page record is not empty, in that order,
\* and is no longer than it; layers are decoded for compositing in the
\* order of the list.
C15_LayersFollowOrderUsed ==
    notebook # <<>> =>
      /\ \A k \in 1..Len(notebook.pages) :
           LET pageMap == recordAt(notebook.pages[k].addr)
               order   == IF Truthy(mapGet(pageMap, K_LAYERSEQ))
                            THEN Split(mapGet(pageMap, K_LAYERSEQ))
                            ELSE DefaultLayerOrder
           IN  /\ layerKeys(notebook.pages[k].layers)
                    = SelectSeq(order, LAMBDA id : Truthy(mapGet(pageMap, id)))
               /\ Len(notebook.pages[k].layers) <= Len(order)
      /\ \A k \in 1..Len(renderedPages) :
           layerKeys(renderedPages[k].decoded)
              = layerKeys(decodedLayers(notebook.pages[k].layers))

\* a rendered page whose layer-order key puts MAINLAYER before BGLAYER
C15_Witness ==
    /\ notebook # <<>>
    /\ \E k \in 1..Len(renderedPages) :
         /\ mapGet(recordAt(notebook.pages[k].addr), K_LAYERSEQ) = SeqMainBg
         /\ layerKeys(notebook.pages[k].layers) = << K_MAINLAYER, K_BGLAYER >>
         /\ layerKeys(renderedPages[k].decoded) = << K_MAINLAYER, K_BGLAYER >>

\* the layer record a layer of a page was built from
layerRecordOf(page, l) ==
    recordAt(parseInt(mapGet(recordAt(page.addr), l.key)))

\* the bitmap key of a layer record is absent or is no integer
NoBitmapAddress(rec) ==
    ~mapHas(rec, K_LAYERBITMAP) \/ parseInt(mapGet(rec, K_LAYERBITMAP)) = NaN

\* C16: a layer whose record has no bitmap key, or one that is no integer,
\* has bitmap address 0, and rendering reads nothing for it: a page is read
\* at most once per layer that has a bitmap address.
C16_BitmapAddressDefaultsToZero ==
    notebook # <<>> =>
      /\ \A k \in 1..Len(notebook.pages) :
           \A j \in 1..Len(notebook.pages[k].layers) :
              NoBitmapAddress(layerRecordOf(notebook.pages[k], notebook.pages[k].layers[j]))
                 => notebook.pages[k].layers[j].bitmapAddress = 0
      /\ \A k \in 1..Len(renderedPages) :
           renderedPages[k].reads
              <= Cardinality({ j \in 1..Len(notebook.pages[k].layers) :
                    ~NoBitmapAddress(layerRecordOf(notebook.pages[k],
                                                   notebook.pages[k].layers[j])) })

---------------------------------------------------------------------------
(* Claims about concurrent rendering *)

\* the bytes of the bitmap block stored at an address
BlockAt(address) == Slice(noteData, address + 4, address + 4 + prefixAt(address))

\* C19: when two renderPage calls on the same document interleave at the
\* await of decodePNG, every layer gets the compressed bytes stored at its
\* own bitmap address, and each call ends as it does when run alone: with
\* the same raster, or with an error.
C19_InterleavingEqualsSequential ==
    tasks # <<>> =>
      \A t \in Tasks :
        LET alone == renderSequential(noteData, tasks[t].layers,
                                      whiteCanvas(width, height))
        IN  /\ \A k \in 1..Len(tasks[t].reads) :
                  /\ tasks[t].reads[k].address = tasks[t].layers[k].bitmapAddress
                  /\ tasks[t].reads[k].bytes = BlockAt(tasks[t].reads[k].address)
            /\ tasks[t].pc = "await"
                  => tasks[t].compressedData
                       = BlockAt(tasks[t].layers[tasks[t].layerIdx + 1].bitmapAddress)
            /\ tasks[t].pc = "done" => (alone.ok /\ tasks[t].canvas = alone.canvas)
            /\ tasks[t].pc = "error" => ~alone.ok

\* both calls wait for decodePNG, the first on the block at 4 and the
\* second, which moved the shared cursor after it, on the block at 12; the
\* first has painted an RLE layer before
C19_Witness ==
    /\ tasks # <<>>
    /\ tasks[1].pc = "await" /\ tasks[2].pc = "await"
    /\ tasks[1].layerIdx = 1 /\ tasks[1].layers[1].protocol = "RATTA_RLE"
    /\ tasks[1].compressedData = BlockAt(4)
    /\ tasks[2].compressedData = BlockAt(12)
    /\ pos = 18

---------------------------------------------------------------------------
(* Claims about the batch import *)

\* the notes whose download has started and has not settled
InFlight ==
    { k \in 0..(items - 1) :
        \E w \in DOMAIN workers : workers[w].pc = "downloading" /\ workers[w].index = k }

\* C20: during a batch import of any number of notes, at most
\* MAX_CONCURRENT_DOWNLOADS = 6 downloads, and at most as many as there are
\* notes, are in flight at any time; no note is downloaded by two workers.
C20_DownloadsBounded ==
    /\ Cardinality(InFlight) <= Min(MAX_CONCURRENT_DOWNLOADS, items)
    /\ \A v, w \in DOMAIN workers :
          (v # w /\ workers[v].pc = "downloading" /\ workers[w].pc = "downloading")
             => workers[v].index # workers[w].index
    /\ \A k \in InFlight : results[k + 1] = <<>>

\* seven notes: six downloads in flight, the seventh started after the
\* first of them settled
C20_Witness ==
    /\ items = MAX_CONCURRENT_DOWNLOADS + 1
    /\ Cardinality(InFlight) = MAX_CONCURRENT_DOWNLOADS
    /\ currentIndex = items
    /\ MAX_CONCURRENT_DOWNLOADS \in InFlight

---------------------------------------------------------------------------
(* Claims about the object structure of buildPDF *)

\* the chunks that open an object, in the order of emission
ObjectChunks == SelectSeq(chunks, LAMBDA c : c.obj # 0)

\* the kind of chunk that opens object k
kindOfObject(k) ==
    IF k = 1 THEN "catalog"
    ELSE IF k = 2 THEN "pages"
    ELSE IF k % 3 = 0 THEN "page"
    ELSE IF k % 3 = 1 THEN "contents"
    ELSE "image"

\* C21: for n pages the emitted document holds the objects 1 .. 3n + 2 in
\* this order: catalog (1), page tree (2), then per page i the page object
\* (3i+3), its content stream (3i+4) and its image (3i+5); the page tree
\* lists the n page object numbers in page order with a count of n; every
\* page object refers to its own content stream and image; every object
\* number referred to is emitted exactly once; the cross-reference section
\* holds one entry per emitted object and announces one more (the free
\* entry of object 0), which is also the trailer's size.
C21_ObjectGraph ==
    pdfPc = "done" =>
      LET n == Len(pageImages) IN
      /\ Len(ObjectChunks) = 3 * n + 2
      /\ \A k \in 1..Len(ObjectChunks) :
            /\ ObjectChunks[k].obj = k
            /\ ObjectChunks[k].kind = kindOfObject(k)
      /\ ObjectChunks[2].refs = [p \in 1..n |-> 3 * (p - 1) + 3]
      /\ ObjectChunks[2].value = n
      /\ \A p \in 0..(n - 1) :
            ObjectChunks[3 * p + 3].refs = <<2, 3 * p + 4, 3 * p + 5>>
      /\ \A j \in 1..Len(chunks) : \A q \in 1..Len(chunks[j].refs) :
            Cardinality({ k \in 1..Len(ObjectChunks) :
                            ObjectChunks[k].obj = chunks[j].refs[q] }) = 1
      /\ Len(XrefEntries) = Len(ObjectChunks)
      /\ Cardinality(ChunksOfKind("xrefFree")) = 1
      /\ \A j \in ChunksOfKind("xrefCount") \cup ChunksOfKind("size") :
            chunks[j].value = Len(ObjectChunks) + 1
      /\ Cardinality(ChunksOfKind("xrefCount")) = 1
      /\ Cardinality(ChunksOfKind("size")) = 1

C21_Witness ==
    /\ pdfPc = "done"
    /\ Len(pageImages) = 2
    /\ ObjectChunks[2].refs = <<3, 6>>
    /\ ObjectChunks[6].refs = <<2, 7, 8>>
    /\ Len(XrefEntries) = 8

---------------------------------------------------------------------------
(* Claims about the rules of decodeRLE with and without a held pair *)

\* the decoder is about to take the pair at offset i
AtPair == rlePc = "loop" /\ morePairs(rleState, compressedData)

\* ((h & 0x7f) + 1) << 7 for a held length code h, which has its high bit set
HeldLength(h) == (h - 128 + 1) * 128

\* C22: with no pair held, a pair (c, l) with l = 0xFF emits exactly 16384
\* pixels of c; otherwise, with the high bit of l set, it emits nothing and
\* becomes the held pair; otherwise it emits exactly l + 1 pixels of c.
C22_RulesWithoutHeldPair ==
    [][ (AtPair /\ holder = <<>>)
        => LET c == compressedData[i + 1]
               l == compressedData[i + 2]
           IN  /\ l = 255 =>
                     /\ decompressed' = Append(decompressed, [color |-> c, count |-> 16384])
                     /\ holder' = <<>>
               /\ (l # 255 /\ l >= 128) =>
                     /\ decompressed' = decompressed
                     /\ holder' = <<c, l>>
               /\ l < 128 =>
                     /\ decompressed' = Append(decompressed, [color |-> c, count |-> l + 1])
                     /\ holder' = <<>> ]_vars

C22_Witness ==
    /\ rlePc = "loop" /\ i = 4
    /\ compressedData[2] = 255
    /\ compressedData[4] = 254
    /\ decompressed = << [color |-> compressedData[1], count |-> 16384] >>
    /\ holder = <<compressedData[3], 254>>

\* C23: a pair taken while a pair is held always resolves the held pair,
\* whatever its own length code (0xFF and high-bit values included): it is
\* neither held nor a 16384 run, the held pair's pixels are emitted with it
\* exactly once, and nothing is held afterwards; a pair still held at the
\* end of the input is emitted once by the tail step (the raster returned
\* is the one obtained by appending the whole held run, cut to size).
C23_HeldPairTakesPrecedence ==
    [][ /\ (AtPair /\ holder # <<>>)
           => LET c == compressedData[i + 1]
                  l == compressedData[i + 2]
              IN  /\ holder' = <<>>
                  /\ c = holder[1] =>
                       decompressed' = Append(decompressed,
                           [color |-> c, count |-> 1 + l + HeldLength(holder[2])])
                  /\ c # holder[1] =>
                       decompressed' = decompressed \o
                           << [color |-> holder[1], count |-> HeldLength(holder[2])],
                              [color |-> c, count |-> l + 1] >>
        /\ (rlePc = "tail" /\ holder # <<>>)
           => /\ padOrTruncate(decompressed', width * height)
                   = padOrTruncate(Append(decompressed,
                         [color |-> holder[1], count |-> HeldLength(holder[2])]),
                       width * height)
              /\ PixelCount(decompressed') <= Max(PixelCount(decompressed), width * height)
        /\ (rlePc = "tail" /\ holder = <<>>) => decompressed' = decompressed
      ]_vars

C23_Witness ==
    /\ rlePc = "loop" /\ i = 4 /\ holder = <<>>
    /\ compressedData = <<97, 133, 101, 255>>
    /\ decompressed = << [color |-> 97, count |-> 768], [color |-> 101, count |-> 256] >>

---------------------------------------------------------------------------
(* Claims about parallelLimit *)

\* C25: for every list of items, every limit >= 1 and every order in which
\* the calls of fn complete (none rejecting), parallelLimit calls fn exactly
\* once for every item index, stores each result at the index of its item,
\* and resolves only after every call has completed.
C25_OncePerItemAtItsIndex ==
    /\ dlPc \in {"downloading", "returned"} =>
          /\ Len(results) = items /\ Len(calls) = items
          /\ \A k \in 1..items :
                /\ calls[k] <= 1
                /\ results[k] # <<>> => (calls[k] = 1 /\ results[k][1] = k - 1)
    /\ dlPc = "returned" =>
          /\ \A k \in 1..items : calls[k] = 1 /\ results[k] # <<>>
          /\ \A w \in DOMAIN workers : workers[w].pc = "done"

\* four items, two workers: the call for item 1 completed before the call
\* for item 0, and its worker went on to item 2; later all four are stored
C25_Witness ==
    /\ items = 4 /\ limit = 2
    /\ dlPc = "downloading"
    /\ results[1] = <<>> /\ results[2] = <<1, "failed">>
    /\ calls = <<1, 1, 1, 0>>
    /\ \E w \in DOMAIN workers : workers[w].pc = "downloading" /\ workers[w].index = 2

---------------------------------------------------------------------------
(* Claims about NoteImporter.importNotesWithProgress *)

\* the number of elements of a sequence that satisfy a test
CountOf(s, Test(_)) == Cardinality({ k \in 1..Len(s) : Test(s[k]) })

\* the single-file import was called directly and has returned
SingleReturned == impEntry = "single" /\ single.pc = "returned"

\* C24: the number the single-file import returns is the number of notes
\* whose ImportResult reports success; a note whose download, conversion or
\* vault write failed counts as a failure, not as a success, and successes
\* plus failures is the number of notes processed.
C24_SingleCountsSuccesses ==
    SingleReturned =>
      /\ impReturn = <<"value", CountOf(single.results, LAMBDA r : r.success)>>
      /\ single.failureCount = CountOf(single.results, LAMBDA r : ~r.success)
      /\ single.successCount + single.failureCount = impNotes

\* the batch import got past the creation of its directories (line 281)
DirectoriesCreated == tempDirs # <<>> /\ tempDirs.input # "none"

\* the promise of importNotesWithProgress has settled
ImportEnded == impReturn # <<>>

\* C26: once the batch import has created its two temporary directories,
\* cleanupTempDir has been called for both of them, the input directory
\* first, by the time the import ends, however it ends: completion, nothing
\* downloaded, fallback to the single-file import, exception.
C26_TempDirsCleanedUp ==
    (impEntry = "batch" /\ DirectoriesCreated /\ ImportEnded)
        => cleanups = <<"input", "output">>

\* a failed conversion: the directories are cleaned while the single-file
\* import runs, and the import ends after both
C26_Witness ==
    /\ impEntry = "batch" /\ ImportEnded
    /\ batch.end = "fallback"
    /\ single.pc = "returned"
    /\ cleanups = <<"input", "output">>
    /\ tempDirs.input = "removed"

\* the download result of note k (numbered from 0)
downloadOutcome(k) == results[k + 1][2]

\* C28: when a batch import ends after a successful directory conversion,
\* every note is accounted for exactly once: it failed to download, or it
\* is one of the downloaded notes and has one outcome of the copy loop;
\* successes are the imported notes, failures are the failed downloads, the
\* missing PDFs and the failed vault writes; successes plus failures is the
\* number of notes, and the value returned is the number of successes.
C28_BatchAccountsForEveryNote ==
    (impEntry = "batch" /\ ImportEnded /\ batch.end = "complete")
      => /\ impReturn = <<"value", batch.successCount>>
         /\ batch.successCount + batch.failureCount = impNotes
         /\ \A k \in 0..(impNotes - 1) :
               IF downloadOutcome(k) = "downloaded"
                 THEN Cardinality({ j \in 1..Len(batch.downloadedNotes) :
                                      batch.downloadedNotes[j] = k }) = 1
                 ELSE \A j \in 1..Len(batch.downloadedNotes) :
                          batch.downloadedNotes[j] # k
         /\ Len(batch.outcomes) = Len(batch.downloadedNotes)
         /\ batch.successCount = CountOf(batch.outcomes, LAMBDA o : o = "imported")
         /\ batch.failureCount =
              CountOf(results, LAMBDA r : r[2] = "failed")
                + CountOf(batch.outcomes, LAMBDA o : o \in {"missing", "vault"})

\* three notes: one download fails, one PDF is missing, one is imported
C28_Witness ==
    /\ impEntry = "batch" /\ ImportEnded /\ batch.end = "complete"
    /\ impNotes = 3
    /\ downloadOutcome(1) = "failed"
    /\ batch.outcomes = <<"missing", "imported">>
    /\ impReturn = <<"value", 1>>
    /\ batch.failureCount = 2

---------------------------------------------------------------------------
(* Claims about the alpha channel of the page canvas *)

\* C27: whatever layers renderPage has composited (RLE, PNG with any alpha
\* values, skipped, failed or unknown), every pixel of the canvas has alpha
\* 255, so the canvas is its rgbaToRgb image with the alpha 255 put back.
C27_CanvasStaysOpaque ==
    renderPc \in {"loop", "await", "done"} =>
      /\ \A k \in 1..Len(canvas) : canvas[k][4] = 255
      /\ canvas = [k \in 1..Len(canvas) |-> rgbaToRgb(canvas)[k] \o <<255>>]

\* renderPage has returned after an RLE layer and a PNG layer whose pixels
\* have alpha 128, which was blended into the colours
C27_Witness ==
    /\ renderPc = "done" /\ layerIdx = 2
    /\ layers[1].protocol = "RATTA_RLE" /\ layers[1].bitmapAddress = 12
    /\ layers[2].protocol = "PNG"
    /\ layerPixels = [k \in 1..(width * height) |-> <<0, 0, 0, 128>>]
    /\ canvas # whiteCanvas(width, height)
    /\ \A k \in 1..Len(canvas) : canvas[k][4] = 255 /\ canvas[k][1] \notin {0, 255}

---------------------------------------------------------------------------
(* Claims about PdfConverter.convert *)

\* C29: in both modes the promise of convert never rejects; whenever
\* something went wrong (empty input, CLI not found, an error of the CLI
\* run or of the parser) the result has success = false and an error
\* message, and a result with success = true carries pdfData.
C29_ConvertNeverRejects ==
    /\ cvtPc # "rejected"
    /\ cvtPc = "resolved" =>
          /\ cvtResult.success = (cvtCause = "")
          /\ ~cvtResult.success =>
                ("error" \in DOMAIN cvtResult /\ cvtResult.error # "")
          /\ cvtResult.success => "pdfData" \in DOMAIN cvtResult

\* the input file could not be written: the catch clause of the CLI mode
\* has built the failure result and the call has resolved
C29_Witness ==
    /\ cvtMode = "cli" /\ cvtPc = "resolved"
    /\ cvtCause = "writeFailed"
    /\ cvtResult.success = FALSE /\ cvtResult.error = "writeFailed"

---------------------------------------------------------------------------
(* Claims about the trash *)

\* position of an id in a list that holds it
PositionIn(list, id) == CHOOSE k \in 1..Len(list) : list[k] = id

\* C30: from a list without duplicates, every call of trashNote,
\* restoreNote and restoreAllNotes, in any order and while other calls
\* wait for saveSettings, leaves a list without duplicates; the id is in
\* the list right after trashNote(id) and not in it right after
\* restoreNote(id), and restoreNote(id) keeps every other id, in the
\* order they had.
C30_TrashListHasNoDuplicates ==
    [][ /\ NoDuplicates(trashedNoteIds) => NoDuplicates(trashedNoteIds')
        /\ \A id \in NoteIds :
             /\ TrashNote(id) => includes(trashedNoteIds', id)
             /\ RestoreNote(id) =>
                  /\ ~includes(trashedNoteIds', id)
                  /\ \A other \in NoteIds \ {id} :
                       includes(trashedNoteIds', other) = includes(trashedNoteIds, other)
                  /\ \A m, n \in 1..Len(trashedNoteIds') :
                       m < n => PositionIn(trashedNoteIds, trashedNoteIds'[m])
                                  < PositionIn(trashedNoteIds, trashedNoteIds'[n])
      ]_vars

\* the first of three trashed notes has been restored while an earlier
\* call still waits for saveSettings
C30_Witness ==
    /\ trashOp = <<"restoreNote", "a">>
    /\ trashedNoteIds = <<"b", "c">>
    /\ Len(pendingSaves) = 2

=============================================================================
